---- MODULE Spec2Model ----
(***************************************************************************)
(* The lineage-and-caching layer of tfx/orchestration/metadata.py (class   *)
(* Metadata) over an ML-Metadata store.  The store is the external         *)
(* collaborator: it is modelled by the variables below (type schemas,      *)
(* executions, events, artifacts, contexts) and by the behaviour the code  *)
(* relies on at each call site (ids assigned in increasing order, types    *)
(* that only grow, contexts unique per (type, name), append-only events).  *)
(* Every public method of Metadata is one action; a raise is an outcome    *)
(* recorded in `last`, with whatever the method wrote before raising.      *)
(***************************************************************************)
EXTENDS Integers, Sequences, FiniteSets, TLC

(***************************************************************************)
(* Bounds of the model.                                                    *)
(***************************************************************************)
\* artifacts in one input/output dict, in one slot or over all its slots
MaxLen == 2
\* executions registered where lookups choose among several (SpecCache)
MaxExecs == 2
\* artifacts publish_execution may add to the store
MaxArtifacts == MaxLen
\* events the store may hold
MaxEvents == MaxLen

(***************************************************************************)
(* Program constants.                                                      *)
(***************************************************************************)
\* Scaled down from 100 so that the window can be exceeded within MaxExecs.
MAX_EXECUTIONS_FOR_CACHE == 1
MAX_INIT_RETRY == 10
EXECUTION_STATE_CACHED == "cached"
EXECUTION_STATE_COMPLETE == "complete"
EXECUTION_STATE_NEW == "new"
CONTEXT_TYPE_PIPELINE == "pipeline"
CONTEXT_TYPE_PIPELINE_RUN == "run"
CONTEXT_TYPE_COMPONENT_RUN == "component_run"
EXECUTION_TYPE_RESERVED_KEYS ==
  {"checksum_md5", "pipeline_name", "pipeline_root", "run_id", "component_id"}
ArtifactState_PUBLISHED == "published"
Event_INPUT == "INPUT"
Event_OUTPUT == "OUTPUT"
Event_DECLARED_INPUT == "DECLARED_INPUT"

\* Python's None, for an optional id or context.
None == 0

(***************************************************************************)
(* State.                                                                  *)
(***************************************************************************)
VARIABLES
  execution_types,  \* store: execution type name -> set of property names ({}: not registered)
  executions,       \* store: sequence of executions, the id is the position
  events,           \* store: the append-only sequence of events
  artifacts,        \* store: sequence of artifacts, the id is the position
  context_types,    \* store: context type name -> set of property names
  contexts,         \* store: sequence of contexts, the id is the position
  published,        \* per execution: how often publish_execution returned (0, 1, 2: more
                    \* than once), and the state and dicts of the call that returned last
  registered,       \* per identity: what register_contexts_if_not_exists last returned
  declared,         \* per execution type: the declared property sets asked for so far
  last,             \* the call that ran last, with its arguments and outcome
  connection,       \* per Metadata object: where __enter__ / __exit__ stands, the
                    \* connection attempts of the current __enter__, and _store
  procs             \* per process: the call it is in, where it stands in it, and
                    \* what it holds in local variables

vars == <<execution_types, executions, events, artifacts, context_types,
          contexts, published, registered, declared, last, connection, procs>>

\* what the actions of one Metadata object used by one process leave alone
local == <<connection, procs>>

store == <<execution_types, executions, events, artifacts, context_types, contexts>>

(***************************************************************************)
(* Input/output dicts: slot name -> list of artifact handles.  A handle is *)
(* the handle's mlmd_artifact.id: 0 while the artifact is not persisted.   *)
(* Python iterates a dict in insertion order; the model fixes KeyOrder.    *)
(***************************************************************************)
KeyOrder == <<"x", "y">>
Keys == {KeyOrder[i] : i \in 1..Len(KeyOrder)}

EmptyDict == [k \in {} |-> <<>>]

ListsOver(handles, maxLen) ==
  UNION {[1..n -> handles] : n \in 0..maxLen}

RECURSIVE SumLen(_, _)
SumLen(d, ks) ==
  IF ks = {} THEN 0
  ELSE LET k == CHOOSE k \in ks : TRUE IN Len(d[k]) + SumLen(d, ks \ {k})

DictSize(d) == SumLen(d, DOMAIN d)

DictsOver(keys, handles, maxLen, maxSlots) ==
  {d \in UNION {[K -> ListsOver(handles, maxLen)] : K \in SUBSET keys} :
     DictSize(d) <= maxSlots}

\* The slots (key, position) of a dict in iteration order.
RECURSIVE SlotsFrom(_, _)
SlotsFrom(d, i) ==
  IF i > Len(KeyOrder) THEN <<>>
  ELSE (IF KeyOrder[i] \in DOMAIN d
        THEN [j \in 1..Len(d[KeyOrder[i]]) |-> <<KeyOrder[i], j>>]
        ELSE <<>>) \o SlotsFrom(d, i + 1)

Slots(d) == SlotsFrom(d, 1)

\* The handles of a dict, as a set.
DictIds(d) == UNION {{d[k][j] : j \in 1..Len(d[k])} : k \in DOMAIN d}

\* The shape of a dict: slot name -> number of artifacts.
ShapeOf(d) == [k \in DOMAIN d |-> Len(d[k])]

Max(a, b) == IF a >= b THEN a ELSE b
Min(a, b) == IF a <= b THEN a ELSE b

(***************************************************************************)
(* Execution properties.  A declared value is [kind, text]: text is what   *)
(* tf.compat.as_text(tf.compat.as_str_any(v)) makes of it, so the int 1    *)
(* and the string "1" are two values with one text.                        *)
(***************************************************************************)
AsText(v) == v.text

\* Python truth of a declared value
Truthy(v) == IF v.kind = "int" THEN v.text # "0" ELSE v.text # ""

\* the file system's answer for the module file: its content, or NoFile
NoFile == "absent"

\* hashlib.md5(contents).hexdigest(): one digest per content
Md5(contents) == "md5:" \o contents

\* PipelineInfo.run_id defaults to None; None and "" are both false in Python
NoRunId == "<None>"
RunIdGiven(run_id) == run_id # NoRunId /\ run_id # ""

PipelineInfo(pipeline_name, pipeline_root, run_id) ==
  [pipeline_name |-> pipeline_name, pipeline_root |-> pipeline_root, run_id |-> run_id]

ComponentInfo(component_type, component_id) ==
  [component_type |-> component_type, component_id |-> component_id]

(***************************************************************************)
(* _prepare_execution_type: the outcome and the store's types afterwards.  *)
(***************************************************************************)
\* the schema of lines 280-299 as it would be without the declared keys
NewExecutionType_base_only(keys) ==
  {"state"}
    \cup (IF "module_file" \in keys THEN {"checksum_md5"} ELSE {})
    \cup {"pipeline_name", "pipeline_root", "run_id", "component_id"}

\* the schema the except-branch builds (lines 280-299)
NewExecutionType(keys) ==
  {"state"} \cup keys
    \cup (IF "module_file" \in keys THEN {"checksum_md5"} ELSE {})
    \cup {"pipeline_name", "pipeline_root", "run_id", "component_id"}

\* lines 270-275: a type of that name exists and has every declared key
ExistingTypeQualifies(types, type_name, keys) ==
  /\ types[type_name] # {}
  /\ keys \subseteq types[type_name]

\* the store's put_execution_type(can_add_fields=True): a stored type may
\* gain fields, and may not lose one
put_execution_type_accepts(types, type_name, new_type) ==
  types[type_name] \subseteq new_type

prepare_execution_type_result(types, type_name, keys) ==
  IF ExistingTypeQualifies(types, type_name, keys) THEN "ok"
  ELSE IF keys \cap EXECUTION_TYPE_RESERVED_KEYS # {} THEN "AssertionError"
  ELSE IF put_execution_type_accepts(types, type_name, NewExecutionType(keys))
       THEN "ok"
       ELSE "ValueError"

prepare_execution_type_store(types, type_name, keys) ==
  IF /\ ~ExistingTypeQualifies(types, type_name, keys)
     /\ prepare_execution_type_result(types, type_name, keys) = "ok"
  THEN [types EXCEPT ![type_name] = NewExecutionType(keys)]
  ELSE types

\* _prepare_execution_type store call by store call, for processes that share
\* the store.  The local existing_execution_type is bound by line 270 only
\* when get_execution_type returns; when it raises NotFoundError the name
\* stays unbound.
Unbound == [bound |-> FALSE, properties |-> {}]

Bound(properties) == [bound |-> TRUE, properties |-> properties]

\* line 270: get_execution_type raises NotFoundError when no type of that name
\* is stored
get_execution_type(types, type_name) ==
  IF types[type_name] = {} THEN Unbound ELSE Bound(types[type_name])

\* lines 306-313: the handler of AlreadyExistsError formats
\* existing_execution_type into the message of the ValueError it raises;
\* reading the unbound local raises UnboundLocalError instead
put_rejected_outcome(existing_execution_type) ==
  IF existing_execution_type.bound THEN "ValueError" ELSE "UnboundLocalError"

\* a process inside _prepare_execution_type
InPrepareExecutionType(pc, type_name, keys, existing_execution_type, rejected) ==
  [pc |-> pc, type_name |-> type_name, keys |-> keys, existing_execution_type |-> existing_execution_type, rejected |-> rejected]

(***************************************************************************)
(* _prepare_execution: the Execution proto (id unset).  The store gives    *)
(* one type id per type name; the name stands for it.                      *)
(***************************************************************************)
\* _prepare_execution as it would be without the checksum of lines 337-342
prepare_execution_no_checksum(state, exec_properties, pipeline_info, component_info, contents) ==
  LET p0 == "state" :> state
      p1 == [k \in DOMAIN exec_properties |-> AsText(exec_properties[k])] @@ p0
      p3 == ("pipeline_name" :> pipeline_info.pipeline_name)
              @@ ("pipeline_root" :> pipeline_info.pipeline_root) @@ p1
      p4 == IF RunIdGiven(pipeline_info.run_id)
            THEN ("run_id" :> pipeline_info.run_id) @@ p3
            ELSE p3
      p5 == ("component_id" :> component_info.component_id) @@ p4
  IN [id |-> None, type_id |-> component_info.component_type, properties |-> p5]

prepare_execution(state, exec_properties, pipeline_info, component_info, contents) ==
  LET p0 == "state" :> state
      p1 == [k \in DOMAIN exec_properties |-> AsText(exec_properties[k])] @@ p0
      p2 == IF /\ "module_file" \in DOMAIN exec_properties
               /\ Truthy(exec_properties["module_file"])
               /\ contents # NoFile
            THEN ("checksum_md5" :> Md5(contents)) @@ p1
            ELSE p1
      p3 == ("pipeline_name" :> pipeline_info.pipeline_name)
              @@ ("pipeline_root" :> pipeline_info.pipeline_root) @@ p2
      p4 == IF RunIdGiven(pipeline_info.run_id)
            THEN ("run_id" :> pipeline_info.run_id) @@ p3
            ELSE p3
      p5 == ("component_id" :> component_info.component_id) @@ p4
  IN [id |-> None, type_id |-> component_info.component_type, properties |-> p5]

\* the Execution proto the store returns for a stored execution
ExecutionProto(execs, id) ==
  [id |-> id, type_id |-> execs[id].type_id, properties |-> execs[id].properties]

(***************************************************************************)
(* Events and artifacts.                                                   *)
(***************************************************************************)
\* _prepare_event: the path is (key, index), the index counted from 0
prepare_event(execution_id, artifact_id, key, index, event_type) ==
  [execution_id |-> execution_id, artifact_id |-> artifact_id,
   key |-> key, index |-> index, type |-> event_type]

\* the store's get_events_by_execution_ids([execution_id]), in stored order
get_events_by_execution_ids(evts, execution_id) ==
  SelectSeq(evts, LAMBDA e : e.execution_id = execution_id)

\* how many of the first n slots of d hold a handle without id
UnsetUpTo(d, n) ==
  LET s == Slots(d) IN Cardinality({m \in 1..n : d[s[m][1]][s[m][2]] = None})

\* how many slots of d hold a handle without id
UnsetIn(d) == UnsetUpTo(d, DictSize(d))

\* position of slot (k, j) in the iteration order of d
SlotPos(d, k, j) ==
  LET s == Slots(d) IN CHOOSE m \in 1..Len(s) : s[m] = <<k, j>>

\* the output loop as it would be if line 436 published every output, those
\* that have an id included
PublishedOutputs_all(output_dict, n_artifacts) ==
  [k \in DOMAIN output_dict |->
     [j \in 1..Len(output_dict[k]) |-> n_artifacts + SlotPos(output_dict, k, j)]]

\* publish_execution's output loop with state COMPLETE (lines 429-436): each
\* output without id is published in turn and takes the store's next id
PublishedOutputs(output_dict, n_artifacts) ==
  [k \in DOMAIN output_dict |->
     [j \in 1..Len(output_dict[k]) |->
        IF output_dict[k][j] # None THEN output_dict[k][j]
        ELSE n_artifacts + UnsetUpTo(output_dict, SlotPos(output_dict, k, j))]]

\* _upsert_artifacts for n new artifacts: each is stored with the given state
upsert_artifacts(arts, n, state) ==
  arts \o [i \in 1..n |-> [state |-> state]]

\* the events publish_execution builds for one dict (lines 416-427, 429-444)
EventsOf(execution_id, d, event_type) ==
  LET s == Slots(d)
  IN [m \in 1..Len(s) |->
        prepare_event(execution_id, d[s[m][1]][s[m][2]], s[m][1], s[m][2] - 1,
                      event_type)]

\* _update_execution_state: the state property is rewritten and stored
update_execution_state(execs, execution_id, new_state) ==
  [execs EXCEPT ![execution_id].properties = ("state" :> new_state) @@ @]

\* publish_execution as it would be without the state check of lines 411-412
publish_execution_result_any_state(execs, execution_id, input_dict, output_dict, state) ==
  IF None \in DictIds(input_dict) THEN "RuntimeError:input"
  ELSE IF state = EXECUTION_STATE_CACHED /\ None \in DictIds(output_dict)
    THEN "RuntimeError:output"
  ELSE IF execution_id \notin 1..Len(execs) THEN "ValueError:execution"
  ELSE "ok"

\* publish_execution as it would be without the cached-output check of lines
\* 432-435: an output without id is published whatever the state
publish_execution_result_minting(execs, execution_id, input_dict, output_dict, state) ==
  IF state \notin {EXECUTION_STATE_CACHED, EXECUTION_STATE_COMPLETE}
    THEN "RuntimeError:state"
  ELSE IF None \in DictIds(input_dict) THEN "RuntimeError:input"
  ELSE IF execution_id \notin 1..Len(execs) THEN "ValueError:execution"
  ELSE "ok"

\* publish_execution as it would be without the input check of lines 417-419
publish_execution_result_any_input(execs, execution_id, input_dict, output_dict, state) ==
  IF state \notin {EXECUTION_STATE_CACHED, EXECUTION_STATE_COMPLETE}
    THEN "RuntimeError:state"
  ELSE IF state = EXECUTION_STATE_CACHED /\ None \in DictIds(output_dict)
    THEN "RuntimeError:output"
  ELSE IF execution_id \notin 1..Len(execs) THEN "ValueError:execution"
  ELSE "ok"

\* publish_execution: how the call ends
publish_execution_result(execs, execution_id, input_dict, output_dict, state) ==
  IF state \notin {EXECUTION_STATE_CACHED, EXECUTION_STATE_COMPLETE}
    THEN "RuntimeError:state"
  ELSE IF None \in DictIds(input_dict) THEN "RuntimeError:input"
  ELSE IF state = EXECUTION_STATE_CACHED /\ None \in DictIds(output_dict)
    THEN "RuntimeError:output"
  ELSE IF execution_id \notin 1..Len(execs) THEN "ValueError:execution"
  ELSE "ok"

\* publish_execution: the artifacts it has published when it ends.  Outputs
\* are published (line 436) before the execution is read (line 446).
publish_execution_artifacts(arts, execs, execution_id, input_dict, output_dict, state) ==
  IF publish_execution_result(execs, execution_id, input_dict, output_dict, state)
       \in {"ok", "ValueError:execution"}
  THEN upsert_artifacts(arts, UnsetIn(output_dict), ArtifactState_PUBLISHED)
  ELSE arts

\* publish_execution: the output dict the caller holds when it ends
publish_execution_outputs(arts, execs, execution_id, input_dict, output_dict, state) ==
  IF publish_execution_result(execs, execution_id, input_dict, output_dict, state)
       \in {"ok", "ValueError:execution"}
  THEN PublishedOutputs(output_dict, Len(arts))
  ELSE output_dict

\* publish_execution: the stored executions when it ends (lines 446-447)
publish_execution_executions(execs, execution_id, input_dict, output_dict, state) ==
  IF publish_execution_result(execs, execution_id, input_dict, output_dict, state) = "ok"
  THEN update_execution_state(execs, execution_id, state)
  ELSE execs

\* publish_execution: the stored events when it ends (lines 448-449)
publish_execution_events(evts, arts, execs, execution_id, input_dict, output_dict, state) ==
  IF publish_execution_result(execs, execution_id, input_dict, output_dict, state) = "ok"
  THEN evts \o EventsOf(execution_id, input_dict, Event_INPUT)
            \o EventsOf(execution_id, PublishedOutputs(output_dict, Len(arts)),
                        Event_OUTPUT)
  ELSE evts

(***************************************************************************)
(* fetch_previous_result_artifacts.                                        *)
(***************************************************************************)
\* lines 566-572: output key -> index -> artifact id; a later event for the
\* same (key, index) replaces the earlier one
name_to_index_to_artifacts(evts, execution_id) ==
  LET out == SelectSeq(get_events_by_execution_ids(evts, execution_id),
                       LAMBDA e : e.type = Event_OUTPUT)
      at(k, j) == {i \in 1..Len(out) : out[i].key = k /\ out[i].index = j}
      latest(k, j) == CHOOSE i \in at(k, j) : \A i2 \in at(k, j) : i2 <= i
  IN [k \in {out[i].key : i \in 1..Len(out)} |->
        [j \in {out[i].index : i \in {i2 \in 1..Len(out) : out[i2].key = k}} |->
           out[latest(k, j)].artifact_id]]

\* lines 573-581 as they would be without the comparison of lines 577-579
RECURSIVE FetchCheckFrom_names_only(_, _, _)
FetchCheckFrom_names_only(found, shape, i) ==
  IF i > Len(KeyOrder) THEN "ok"
  ELSE LET k == KeyOrder[i] IN
       IF k \notin DOMAIN shape THEN FetchCheckFrom_names_only(found, shape, i + 1)
       ELSE IF k \notin DOMAIN found THEN "RuntimeError:name"
       ELSE FetchCheckFrom_names_only(found, shape, i + 1)

\* lines 573-581 for the requested names from position i of the iteration
\* order on: "ok", or the error of the first name that fails
RECURSIVE FetchCheckFrom(_, _, _)
FetchCheckFrom(found, shape, i) ==
  IF i > Len(KeyOrder) THEN "ok"
  ELSE LET k == KeyOrder[i] IN
       IF k \notin DOMAIN shape THEN FetchCheckFrom(found, shape, i + 1)
       ELSE IF k \notin DOMAIN found THEN "RuntimeError:name"
       ELSE IF shape[k] # Cardinality(DOMAIN found[k]) THEN "RuntimeError:count"
       ELSE IF \E j \in 0..(shape[k] - 1) : j \notin DOMAIN found[k] THEN "KeyError"
       ELSE FetchCheckFrom(found, shape, i + 1)

\* fetch_previous_result_artifacts(output_dict, execution_id): shape is the
\* number of handles output_dict holds per name.  The result is the error
\* raised, or "ok" and the artifact id attached to each handle.
fetch_previous_result_artifacts(evts, shape, execution_id) ==
  LET found == name_to_index_to_artifacts(evts, execution_id)
      check == FetchCheckFrom(found, shape, 1)
  IN [outcome |-> check,
      value |-> IF check # "ok" THEN EmptyDict
                ELSE [k \in DOMAIN shape |-> [j \in 1..shape[k] |-> found[k][j - 1]]]]

(***************************************************************************)
(* Contexts.  The context names come from data_types.PipelineInfo and      *)
(* data_types.ComponentInfo; a name is the tuple of the identifiers it is  *)
(* derived from.                                                           *)
(***************************************************************************)
pipeline_context_name(pipeline_info) == <<pipeline_info.pipeline_name>>

pipeline_run_context_name(pipeline_info) ==
  <<pipeline_info.pipeline_name, pipeline_info.run_id>>

component_run_context_name(pipeline_info, component_info) ==
  <<pipeline_info.pipeline_name, pipeline_info.run_id, component_info.component_id>>

\* the store's get_context_by_type_and_name: the context id, or None
get_context_by_type_and_name(ctxs, type_name, context_name) ==
  IF \E i \in 1..Len(ctxs) : ctxs[i].type = type_name /\ ctxs[i].name = context_name
  THEN CHOOSE i \in 1..Len(ctxs) : ctxs[i].type = type_name /\ ctxs[i].name = context_name
  ELSE None

get_pipeline_context(ctxs, pipeline_info) ==
  get_context_by_type_and_name(ctxs, CONTEXT_TYPE_PIPELINE,
                               pipeline_context_name(pipeline_info))

\* the store's get_executions_by_context: ids of the executions linked to it
get_executions_by_context(execs, context_id) ==
  SelectSeq([i \in 1..Len(execs) |-> i], LAMBDA i : context_id \in execs[i].contexts)

(***************************************************************************)
(* previous_execution.                                                     *)
(***************************************************************************)
\* _is_eligible_previous_execution: run_id is cleared on both copies and the
\* candidate's id copied; then the protos are compared whole
is_eligible_previous_execution(currrent_execution, target_execution) ==
  LET c == [currrent_execution EXCEPT !.properties = ("run_id" :> "") @@ @,
                                      !.id = target_execution.id]
      t == [target_execution EXCEPT !.properties = ("run_id" :> "") @@ @]
  IN c = t

\* line 542 as it would be with an ascending sort
RECURSIVE SortAscending(_)
SortAscending(ids) ==
  IF Len(ids) = 0 THEN <<>>
  ELSE LET m == CHOOSE i \in 1..Len(ids) : \A j \in 1..Len(ids) : ids[i] <= ids[j]
       IN <<ids[m]>> \o SortAscending(SubSeq(ids, 1, m - 1) \o SubSeq(ids, m + 1, Len(ids)))

\* list.sort(reverse=True)
RECURSIVE SortReverse(_)
SortReverse(ids) ==
  IF Len(ids) = 0 THEN <<>>
  ELSE LET m == CHOOSE i \in 1..Len(ids) : \A j \in 1..Len(ids) : ids[j] <= ids[i]
       IN <<ids[m]>> \o SortReverse(SubSeq(ids, 1, m - 1) \o SubSeq(ids, m + 1, Len(ids)))

\* lines 538-544 as they would be without the cut of lines 542-543
candidate_execution_ids_uncapped(execs, context_id, expected_previous_execution) ==
  SortReverse(SelectSeq(get_executions_by_context(execs, context_id),
                LAMBDA i : is_eligible_previous_execution(
                             expected_previous_execution, ExecutionProto(execs, i))))

\* lines 538-544: the ids of the executions of the context that equal the
\* template, most recent first, cut to the window
candidate_execution_ids(execs, context_id, expected_previous_execution) ==
  LET eligible == SelectSeq(get_executions_by_context(execs, context_id),
                    LAMBDA i : is_eligible_previous_execution(
                                 expected_previous_execution, ExecutionProto(execs, i)))
      sorted == SortReverse(eligible)
  IN SubSeq(sorted, 1, Min(Len(sorted), MAX_EXECUTIONS_FOR_CACHE))

\* lines 475-480: the artifact ids of an execution's input events
execution_input_ids(evts, execution_id) ==
  LET es == get_events_by_execution_ids(evts, execution_id)
  IN {es[i].artifact_id :
        i \in {i2 \in 1..Len(es) : es[i2].type \in {Event_INPUT, Event_DECLARED_INPUT}}}

\* _get_cached_execution_id as it would be if line 482 asked only that the
\* lookup's input ids be among the candidate's
get_cached_execution_id_subset(evts, input_dict, candidates) ==
  LET hits == SelectSeq(candidates,
                LAMBDA c : DictIds(input_dict) \subseteq execution_input_ids(evts, c))
  IN IF Len(hits) = 0 THEN None ELSE Head(hits)

\* the (key, index, artifact id) triples of an execution's input events
execution_input_slots(evts, execution_id) ==
  LET es == get_events_by_execution_ids(evts, execution_id)
  IN {<<es[i].key, es[i].index, es[i].artifact_id>> :
        i \in {i2 \in 1..Len(es) : es[i2].type \in {Event_INPUT, Event_DECLARED_INPUT}}}

\* _get_cached_execution_id as it would be if line 482 compared the slots
\* (name, index, id) of the lookup's inputs with those of the candidate's
get_cached_execution_id_by_slots(evts, input_dict, candidates) ==
  LET lookup == UNION {{<<k, j - 1, input_dict[k][j]>> : j \in 1..Len(input_dict[k])} : k \in DOMAIN input_dict}
      hits == SelectSeq(candidates, LAMBDA c : lookup = execution_input_slots(evts, c))
  IN IF Len(hits) = 0 THEN None ELSE Head(hits)

\* _get_cached_execution_id: the first candidate whose input ids are the
\* lookup's, or None
RECURSIVE get_cached_execution_id(_, _, _)
get_cached_execution_id(evts, input_dict, candidates) ==
  IF Len(candidates) = 0 THEN None
  ELSE IF DictIds(input_dict) = execution_input_ids(evts, Head(candidates))
       THEN Head(candidates)
       ELSE get_cached_execution_id(evts, input_dict, Tail(candidates))

\* previous_execution as it would be without lines 534-537: with no pipeline
\* context every stored execution is compared with the template
previous_execution_any_context(types, execs, evts, ctxs, input_artifacts, exec_properties, pipeline_info, component_info, contents) ==
  LET prepared == prepare_execution_type_result(types, component_info.component_type,
                                                DOMAIN exec_properties)
      expected_previous_execution ==
        prepare_execution(EXECUTION_STATE_COMPLETE, exec_properties,
                          pipeline_info, component_info, contents)
      context == get_pipeline_context(ctxs, pipeline_info)
      every == SortReverse(SelectSeq([i \in 1..Len(execs) |-> i],
                 LAMBDA i : is_eligible_previous_execution(
                              expected_previous_execution, ExecutionProto(execs, i))))
  IN [outcome |-> prepared,
      value |-> IF prepared # "ok" THEN None
                ELSE get_cached_execution_id(evts, input_artifacts,
                       IF context = None THEN every
                       ELSE candidate_execution_ids(execs, context,
                                                    expected_previous_execution))]

\* previous_execution: the error raised while the template is built, or "ok"
\* and the id returned (None: no previous execution)
previous_execution(types, execs, evts, ctxs, input_artifacts, exec_properties, pipeline_info, component_info, contents) ==
  LET prepared == prepare_execution_type_result(types, component_info.component_type,
                                                DOMAIN exec_properties)
      expected_previous_execution ==
        prepare_execution(EXECUTION_STATE_COMPLETE, exec_properties,
                          pipeline_info, component_info, contents)
      context == get_pipeline_context(ctxs, pipeline_info)
  IN [outcome |-> prepared,
      value |-> IF prepared # "ok" \/ context = None THEN None
                ELSE get_cached_execution_id(evts, input_artifacts,
                       candidate_execution_ids(execs, context,
                                               expected_previous_execution))]

(***************************************************************************)
(* register_contexts_if_not_exists.                                        *)
(***************************************************************************)
\* _register_context_type_if_not_exist: put_context_type(can_add_fields=True)
register_context_type_if_not_exist(ctypes, context_type_name, property_names) ==
  [ctypes EXCEPT ![context_type_name] = @ \cup property_names]

\* lines 740-748 as they would be if put_contexts stored a second context of
\* the same type and name
put_context_always(ctxs, context_type_name, context_name, properties) ==
  Append(ctxs, [type |-> context_type_name, name |-> context_name,
                properties |-> properties])

\* lines 740-748: put_contexts, and on AlreadyExistsError (the store keeps one
\* context per type and name) the existing context is kept
put_context_if_not_exist(ctxs, context_type_name, context_name, properties) ==
  IF get_context_by_type_and_name(ctxs, context_type_name, context_name) # None
  THEN ctxs
  ELSE Append(ctxs, [type |-> context_type_name, name |-> context_name,
                     properties |-> properties])

\* lines 731-739: a property value that is no int, str or float raises
ContextPropertiesAccepted(properties) ==
  \A k \in DOMAIN properties : properties[k] # NoRunId

\* the properties of the three contexts (lines 822-849)
PipelineContextProperties(pipeline_info) ==
  "pipeline_name" :> pipeline_info.pipeline_name

PipelineRunContextProperties(pipeline_info) ==
  ("pipeline_name" :> pipeline_info.pipeline_name)
    @@ ("run_id" :> pipeline_info.run_id)

ComponentRunContextProperties(pipeline_info, component_info) ==
  ("pipeline_name" :> pipeline_info.pipeline_name)
    @@ ("run_id" :> pipeline_info.run_id)
    @@ ("component_id" :> component_info.component_id)

\* register_contexts_if_not_exists: the stored contexts when it ends
register_contexts_store(ctxs, pipeline_info, component_info) ==
  LET c1 == put_context_if_not_exist(ctxs, CONTEXT_TYPE_PIPELINE,
              pipeline_context_name(pipeline_info),
              PipelineContextProperties(pipeline_info))
      c2 == IF RunIdGiven(pipeline_info.run_id)
            THEN put_context_if_not_exist(c1, CONTEXT_TYPE_PIPELINE_RUN,
                   pipeline_run_context_name(pipeline_info),
                   PipelineRunContextProperties(pipeline_info))
            ELSE c1
  IN IF ContextPropertiesAccepted(
          ComponentRunContextProperties(pipeline_info, component_info))
     THEN put_context_if_not_exist(c2, CONTEXT_TYPE_COMPONENT_RUN,
            component_run_context_name(pipeline_info, component_info),
            ComponentRunContextProperties(pipeline_info, component_info))
     ELSE c2

\* register_contexts_if_not_exists: the stored context types when it ends.  A
\* context type is registered before its context's properties are checked.
register_contexts_types(ctypes, pipeline_info, component_info) ==
  LET t1 == register_context_type_if_not_exist(ctypes, CONTEXT_TYPE_PIPELINE,
              DOMAIN PipelineContextProperties(pipeline_info))
      t2 == IF RunIdGiven(pipeline_info.run_id)
            THEN register_context_type_if_not_exist(t1, CONTEXT_TYPE_PIPELINE_RUN,
                   DOMAIN PipelineRunContextProperties(pipeline_info))
            ELSE t1
  IN register_context_type_if_not_exist(t2, CONTEXT_TYPE_COMPONENT_RUN,
       DOMAIN ComponentRunContextProperties(pipeline_info, component_info))

\* register_contexts_if_not_exists: the error raised, or "ok" and the list of
\* the ids of the contexts returned
register_contexts_if_not_exists(ctxs, pipeline_info, component_info) ==
  LET after == register_contexts_store(ctxs, pipeline_info, component_info)
      pipeline_context ==
        get_pipeline_context(after, pipeline_info)
      pipeline_run_context ==
        get_context_by_type_and_name(after, CONTEXT_TYPE_PIPELINE_RUN,
                                     pipeline_run_context_name(pipeline_info))
      component_run_context ==
        get_context_by_type_and_name(after, CONTEXT_TYPE_COMPONENT_RUN,
                                     component_run_context_name(pipeline_info, component_info))
  IN IF ~ContextPropertiesAccepted(
           ComponentRunContextProperties(pipeline_info, component_info))
     THEN [outcome |-> "RuntimeError:property", value |-> <<>>]
     ELSE [outcome |-> "ok",
           value |-> <<pipeline_context>>
                       \o (IF RunIdGiven(pipeline_info.run_id)
                           THEN <<pipeline_run_context>> ELSE <<>>)
                       \o <<component_run_context>>]

\* register_contexts_if_not_exists store call by store call, for processes
\* that share the store.  The context types a call registers, in order
\* (lines 820-849):
ContextLevels(pipeline_info) ==
  IF RunIdGiven(pipeline_info.run_id)
  THEN <<CONTEXT_TYPE_PIPELINE, CONTEXT_TYPE_PIPELINE_RUN, CONTEXT_TYPE_COMPONENT_RUN>>
  ELSE <<CONTEXT_TYPE_PIPELINE, CONTEXT_TYPE_COMPONENT_RUN>>

\* the context_name argument of the call for one context type
ContextNameAt(context_type_name, pipeline_info, component_info) ==
  IF context_type_name = CONTEXT_TYPE_PIPELINE
  THEN pipeline_context_name(pipeline_info)
  ELSE IF context_type_name = CONTEXT_TYPE_PIPELINE_RUN
       THEN pipeline_run_context_name(pipeline_info)
       ELSE component_run_context_name(pipeline_info, component_info)

\* the properties argument of the call for one context type
ContextPropertiesAt(context_type_name, pipeline_info, component_info) ==
  IF context_type_name = CONTEXT_TYPE_PIPELINE
  THEN PipelineContextProperties(pipeline_info)
  ELSE IF context_type_name = CONTEXT_TYPE_PIPELINE_RUN
       THEN PipelineRunContextProperties(pipeline_info)
       ELSE ComponentRunContextProperties(pipeline_info, component_info)

\* line 741: the store keeps one context per type and name, so put_contexts
\* stores the context only when none of that type and name exists
put_contexts_accepts(ctxs, context_type_name, context_name) ==
  get_context_by_type_and_name(ctxs, context_type_name, context_name) = None

\* lines 743-749: after AlreadyExistsError the existing context is read back;
\* None fails the assert
context_after_conflict(ctxs, context_type_name, context_name) ==
  get_context_by_type_and_name(ctxs, context_type_name, context_name)

\* a process inside register_contexts_if_not_exists: the context type it is
\* at, and the ids of the contexts appended to result so far
InRegisterContexts(pc, pipeline_info, component_info, level, result) ==
  [pc |-> pc, pipeline_info |-> pipeline_info, component_info |-> component_info, level |-> level, result |-> result]

\* _register_context_if_not_exist returned context_id: result.append, then
\* the next context type or the return of line 855
context_registered(proc, context_id) ==
  IF proc.level < Len(ContextLevels(proc.pipeline_info))
  THEN [proc EXCEPT !.pc = "put_context_type", !.level = @ + 1,
                    !.result = Append(@, context_id)]
  ELSE [proc EXCEPT !.pc = "returned", !.result = Append(@, context_id)]

\* the context list a caller passes to register_execution: the contexts of
\* its run that exist
ContextsOfRun(ctxs, pipeline_info, component_info) ==
  {get_pipeline_context(ctxs, pipeline_info),
   get_context_by_type_and_name(ctxs, CONTEXT_TYPE_PIPELINE_RUN,
                                pipeline_run_context_name(pipeline_info)),
   get_context_by_type_and_name(ctxs, CONTEXT_TYPE_COMPONENT_RUN,
                                component_run_context_name(pipeline_info, component_info))}
    \ {None}

(***************************************************************************)
(* __init__, __enter__ and __exit__.  A Metadata object is [pc, attempts,  *)
(* _store]: pc is "constructed", "entering" (inside the loop of __enter__), *)
(* "entered" (__enter__ returned self), "raised" (__enter__ raised) or      *)
(* "exited"; attempts counts the MetadataStore(...) calls of the current    *)
(* __enter__.                                                               *)
(***************************************************************************)
NoStore == "None"
MetadataStore == "MetadataStore"

\* __init__ (lines 124-127)
Constructed == [pc |-> "constructed", attempts |-> 0, _store |-> NoStore]

\* the loop of line 133 as it would be with no ceiling
enter_exhausted_never(object) == FALSE

\* line 133: range(_MAX_INIT_RETRY) has no attempt left
enter_exhausted(object) == object.attempts >= MAX_INIT_RETRY

\* lines 134-143: one pass of the loop; connected tells whether
\* MetadataStore(...) returned or raised the RuntimeError that is retried
enter_attempt(object, connected) ==
  IF connected
  THEN [pc |-> "entered", attempts |-> object.attempts + 1, _store |-> MetadataStore]
  ELSE [object EXCEPT !.attempts = @ + 1]

\* line 145: the loop ended without a connection
enter_raise(object) == [object EXCEPT !.pc = "raised"]

\* __exit__ as it would be if it released the handle only when the with
\* block ended without exception
exit_unless_exception(object, exc_type) ==
  IF exc_type = "None"
  THEN [object EXCEPT !.pc = "exited", !._store = NoStore]
  ELSE [object EXCEPT !.pc = "exited"]

\* __exit__ (lines 147-150): exc_type is what the with block raised, "None"
\* when it ended normally
exit(object, exc_type) == [object EXCEPT !.pc = "exited", !._store = NoStore]

\* the store property (lines 152-161): the handle, or the error raised
store_accessor(object) ==
  IF object._store = NoStore THEN "RuntimeError" ELSE object._store

(***************************************************************************)
(* Initial state: an empty store, nothing called yet.                      *)
(***************************************************************************)
MetadataObjects == {"m1", "m2"}

Processes == {"A", "B"}

Idle == [pc |-> "idle"]

ComponentTypes == {"Trainer", "Pusher"}
ContextTypes ==
  {CONTEXT_TYPE_PIPELINE, CONTEXT_TYPE_PIPELINE_RUN, CONTEXT_TYPE_COMPONENT_RUN}

NothingDeclared ==
  [called |-> FALSE, keys |-> {}, union |-> {}, increasing |-> TRUE,
   grown |-> FALSE, reserved_free |-> TRUE, succeeded |-> TRUE]

NotPublished ==
  [count |-> 0, state |-> EXECUTION_STATE_NEW,
   input_dict |-> EmptyDict, output_dict |-> EmptyDict, call |-> <<>>]

NoCall == [op |-> "none", args |-> <<>>, outcome |-> "ok", value |-> None]

Init ==
  /\ execution_types = [t \in ComponentTypes |-> {}]
  /\ executions = <<>>
  /\ events = <<>>
  /\ artifacts = <<>>
  /\ context_types = [t \in ContextTypes |-> {}]
  /\ contexts = <<>>
  /\ published = <<>>
  /\ registered = <<>>
  /\ declared = [t \in ComponentTypes |-> NothingDeclared]
  /\ last = NoCall
  /\ connection = [m \in MetadataObjects |-> Constructed]
  /\ procs = [p \in Processes |-> Idle]

(***************************************************************************)
(* Actions: one per method of Metadata.                                    *)
(***************************************************************************)
\* _prepare_execution_type(type_name, exec_properties), called on its own
PrepareExecutionType(type_name, keys) ==
  LET result == prepare_execution_type_result(execution_types, type_name, keys)
  IN /\ execution_types' = prepare_execution_type_store(execution_types, type_name, keys)
     /\ declared' = [declared EXCEPT ![type_name] =
                       [called |-> TRUE,
                        keys |-> keys,
                        union |-> @.union \cup keys,
                        increasing |-> @.increasing /\ @.keys \subseteq keys,
                        grown |-> @.grown \/ (@.called /\ @.keys # keys
                                                /\ @.keys \subseteq keys),
                        reserved_free |-> @.reserved_free
                                            /\ keys \cap EXECUTION_TYPE_RESERVED_KEYS = {},
                        succeeded |-> @.succeeded /\ result = "ok"]]
     /\ last' = [op |-> "prepare_execution_type",
                 args |-> [type_name |-> type_name, keys |-> keys],
                 outcome |-> result,
                 value |-> None]
     /\ UNCHANGED local
     /\ UNCHANGED <<executions, events, artifacts, context_types, contexts,
                    published, registered>>

\* register_execution(exec_properties, pipeline_info, component_info, contexts);
\* contents is what the module file holds at the time of the call
RegisterExecution(exec_properties, pipeline_info, component_info, with_contexts, contents) ==
  LET type_name == component_info.component_type
      prepared == prepare_execution_type_result(execution_types, type_name,
                                                DOMAIN exec_properties)
      execution == prepare_execution(EXECUTION_STATE_NEW, exec_properties,
                                     pipeline_info, component_info, contents)
      linked == IF with_contexts
                THEN ContextsOfRun(contexts, pipeline_info, component_info)
                ELSE {}
  IN /\ execution_types' = prepare_execution_type_store(execution_types, type_name,
                                                        DOMAIN exec_properties)
     /\ executions' = IF prepared = "ok"
                      THEN Append(executions,
                                  [type_id |-> execution.type_id,
                                   properties |-> execution.properties,
                                   contexts |-> linked])
                      ELSE executions
     /\ published' = IF prepared = "ok"
                     THEN Append(published,
                                 [NotPublished EXCEPT !.call =
                                    [exec_properties |-> exec_properties,
                                     pipeline_info |-> pipeline_info,
                                     component_info |-> component_info,
                                     contents |-> contents]])
                     ELSE published
     /\ last' = [op |-> "register_execution",
                 args |-> [exec_properties |-> exec_properties,
                           pipeline_info |-> pipeline_info,
                           component_info |-> component_info,
                           contents |-> contents],
                 outcome |-> prepared,
                 value |-> IF prepared = "ok" THEN Len(executions) + 1 ELSE None]
     /\ UNCHANGED local
     /\ UNCHANGED <<events, artifacts, context_types, contexts, registered, declared>>

\* publish_artifacts([artifact]) for one artifact without id
PublishArtifacts ==
  /\ artifacts' = upsert_artifacts(artifacts, 1, ArtifactState_PUBLISHED)
  /\ last' = [op |-> "publish_artifacts", args |-> <<>>, outcome |-> "ok",
              value |-> Len(artifacts) + 1]
  /\ UNCHANGED local
  /\ UNCHANGED <<execution_types, executions, events, context_types, contexts,
                 published, registered, declared>>

\* publish_execution(execution_id, input_dict, output_dict, state)
PublishExecution(execution_id, input_dict, output_dict, state) ==
  LET result == publish_execution_result(executions, execution_id,
                                         input_dict, output_dict, state)
      returned == publish_execution_outputs(artifacts, executions, execution_id,
                                            input_dict, output_dict, state)
  IN /\ UnsetIn(output_dict) > 0
          => Len(artifacts) + UnsetIn(output_dict) <= MaxArtifacts
     /\ Len(events) + DictSize(input_dict) + DictSize(output_dict) <= MaxEvents
     /\ artifacts' = publish_execution_artifacts(artifacts, executions, execution_id,
                                                 input_dict, output_dict, state)
     /\ executions' = publish_execution_executions(executions, execution_id,
                                                   input_dict, output_dict, state)
     /\ events' = publish_execution_events(events, artifacts, executions, execution_id,
                                           input_dict, output_dict, state)
     /\ published' = IF result = "ok"
                     THEN [published EXCEPT ![execution_id] =
                             [count |-> Min(@.count + 1, 2), state |-> state,
                              input_dict |-> input_dict, output_dict |-> returned,
                              call |-> @.call]]
                     ELSE published
     /\ last' = [op |-> "publish_execution",
                 args |-> [execution_id |-> execution_id, state |-> state,
                           input_unset |-> None \in DictIds(input_dict),
                           output_unset |-> None \in DictIds(output_dict)],
                 outcome |-> result,
                 value |-> None]
     /\ UNCHANGED local
     /\ UNCHANGED <<execution_types, context_types, contexts, registered, declared>>

\* fetch_previous_result_artifacts(output_dict, execution_id)
FetchPreviousResultArtifacts(shape, execution_id) ==
  LET result == fetch_previous_result_artifacts(events, shape, execution_id)
  IN /\ last' = [op |-> "fetch_previous_result_artifacts",
                 args |-> [shape |-> shape, execution_id |-> execution_id],
                 outcome |-> result.outcome,
                 value |-> result.value]
     /\ UNCHANGED local
     /\ UNCHANGED <<execution_types, executions, events, artifacts, context_types,
                    contexts, published, registered, declared>>

\* previous_execution as it would be if lines 539-540 compared the stored
\* executions themselves, not copies, and wrote them back: run_id is
\* cleared on every execution of the pipeline context
PreviousExecution_on_originals(input_artifacts, exec_properties, pipeline_info, component_info, contents) ==
  LET result == previous_execution(execution_types, executions, events, contexts,
                                   input_artifacts, exec_properties,
                                   pipeline_info, component_info, contents)
      context == get_pipeline_context(contexts, pipeline_info)
  IN /\ execution_types' = prepare_execution_type_store(execution_types,
                              component_info.component_type, DOMAIN exec_properties)
     /\ executions' =
          [i \in 1..Len(executions) |->
             IF result.outcome = "ok" /\ context # None
                  /\ context \in executions[i].contexts
             THEN [executions[i] EXCEPT !.properties = ("run_id" :> "") @@ @]
             ELSE executions[i]]
     /\ last' = [op |-> "previous_execution",
                 args |-> [input_artifacts |-> input_artifacts,
                           exec_properties |-> exec_properties,
                           pipeline_info |-> pipeline_info,
                           component_info |-> component_info,
                           contents |-> contents],
                 outcome |-> result.outcome,
                 value |-> result.value]
     /\ UNCHANGED local
     /\ UNCHANGED <<events, artifacts, context_types, contexts,
                    published, registered, declared>>

\* previous_execution(input_artifacts, exec_properties, pipeline_info, component_info)
PreviousExecution(input_artifacts, exec_properties, pipeline_info, component_info, contents) ==
  LET result == previous_execution(execution_types, executions, events, contexts,
                                   input_artifacts, exec_properties,
                                   pipeline_info, component_info, contents)
  IN /\ execution_types' = prepare_execution_type_store(execution_types,
                              component_info.component_type, DOMAIN exec_properties)
     /\ last' = [op |-> "previous_execution",
                 args |-> [input_artifacts |-> input_artifacts,
                           exec_properties |-> exec_properties,
                           pipeline_info |-> pipeline_info,
                           component_info |-> component_info,
                           contents |-> contents],
                 outcome |-> result.outcome,
                 value |-> result.value]
     /\ UNCHANGED local
     /\ UNCHANGED <<executions, events, artifacts, context_types, contexts,
                    published, registered, declared>>

\* register_contexts_if_not_exists(pipeline_info, component_info)
RegisterContexts(pipeline_info, component_info) ==
  LET result == register_contexts_if_not_exists(contexts, pipeline_info, component_info)
      identity == <<pipeline_info.pipeline_name, pipeline_info.run_id,
                    component_info.component_id>>
  IN /\ contexts' = register_contexts_store(contexts, pipeline_info, component_info)
     /\ context_types' = register_contexts_types(context_types, pipeline_info,
                                                 component_info)
     /\ registered' =
          (identity :> [outcome |-> result.outcome, value |-> result.value,
                        calls |-> IF identity \in DOMAIN registered
                                  THEN 2 ELSE 1])
            @@ registered
     /\ last' = [op |-> "register_contexts_if_not_exists",
                 args |-> [pipeline_info |-> pipeline_info,
                           component_info |-> component_info],
                 outcome |-> result.outcome,
                 value |-> result.value]
     /\ UNCHANGED local
     /\ UNCHANGED <<execution_types, executions, events, artifacts, published, declared>>

\* __enter__ is called on an object that is not inside a with block
Enter(m) ==
  /\ connection[m].pc \in {"constructed", "raised", "exited"}
  /\ connection' = [connection EXCEPT ![m] = [@ EXCEPT !.pc = "entering",
                                                       !.attempts = 0]]
  /\ UNCHANGED <<store, published, registered, declared, last, procs>>

\* one pass of the loop of __enter__
ConnectAttempt(m, connected) ==
  /\ connection[m].pc = "entering"
  /\ ~enter_exhausted(connection[m])
  /\ connection' = [connection EXCEPT ![m] = enter_attempt(@, connected)]
  /\ UNCHANGED <<store, published, registered, declared, last, procs>>

\* __enter__ leaves the loop and raises
EnterRaises(m) ==
  /\ connection[m].pc = "entering"
  /\ enter_exhausted(connection[m])
  /\ connection' = [connection EXCEPT ![m] = enter_raise(@)]
  /\ UNCHANGED <<store, published, registered, declared, last, procs>>

\* __exit__, at the end of the with block
Exit(m, exc_type) ==
  /\ connection[m].pc = "entered"
  /\ connection' = [connection EXCEPT ![m] = exit(@, exc_type)]
  /\ last' = [op |-> "__exit__", args |-> [object |-> m, exc_type |-> exc_type],
              outcome |-> "ok", value |-> None]
  /\ UNCHANGED <<store, published, registered, declared, procs>>

\* the store property is read by the code that holds the object; it is not
\* read while __enter__ runs
AccessStore(m) ==
  /\ connection[m].pc # "entering"
  /\ last' = [op |-> "store", args |-> [object |-> m],
              outcome |-> IF store_accessor(connection[m]) = "RuntimeError"
                          THEN "RuntimeError" ELSE "ok",
              value |-> None]
  /\ UNCHANGED <<store, published, registered, declared, connection, procs>>

\* a process calls register_contexts_if_not_exists
CallRegisterContexts(p, pipeline_info, component_info) ==
  /\ procs[p].pc = "idle"
  /\ procs' = [procs EXCEPT ![p] = InRegisterContexts("put_context_type",
                                     pipeline_info, component_info, 1, <<>>)]
  /\ UNCHANGED <<store, published, registered, declared, last, connection>>

\* lines 725-739: put_context_type, then the context's properties are set
PutContextType(p) ==
  LET proc == procs[p]
      context_type_name == ContextLevels(proc.pipeline_info)[proc.level]
      properties == ContextPropertiesAt(context_type_name, proc.pipeline_info,
                                        proc.component_info)
  IN /\ proc.pc = "put_context_type"
     /\ context_types' = register_context_type_if_not_exist(context_types,
                            context_type_name, DOMAIN properties)
     /\ procs' = [procs EXCEPT ![p].pc = IF ContextPropertiesAccepted(properties)
                                         THEN "put_contexts"
                                         ELSE "RuntimeError:property"]
     /\ UNCHANGED <<execution_types, executions, events, artifacts, contexts>>
     /\ UNCHANGED <<published, registered, declared, last, connection>>

\* lines 740-743: put_contexts stores the context or raises AlreadyExistsError
PutContexts(p) ==
  LET proc == procs[p]
      context_type_name == ContextLevels(proc.pipeline_info)[proc.level]
      context_name == ContextNameAt(context_type_name, proc.pipeline_info,
                                    proc.component_info)
      properties == ContextPropertiesAt(context_type_name, proc.pipeline_info,
                                        proc.component_info)
  IN /\ proc.pc = "put_contexts"
     /\ IF put_contexts_accepts(contexts, context_type_name, context_name)
        THEN /\ contexts' = put_context_always(contexts, context_type_name,
                                               context_name, properties)
             /\ procs' = [procs EXCEPT ![p] =
                            context_registered(proc, Len(contexts) + 1)]
        ELSE /\ procs' = [procs EXCEPT ![p].pc = "get_context"]
             /\ UNCHANGED contexts
     /\ UNCHANGED <<execution_types, executions, events, artifacts, context_types>>
     /\ UNCHANGED <<published, registered, declared, last, connection>>

\* lines 744-749: the losing side reads the existing context back
GetContext(p) ==
  LET proc == procs[p]
      context_type_name == ContextLevels(proc.pipeline_info)[proc.level]
      context_name == ContextNameAt(context_type_name, proc.pipeline_info,
                                    proc.component_info)
      context == context_after_conflict(contexts, context_type_name, context_name)
  IN /\ proc.pc = "get_context"
     /\ procs' = [procs EXCEPT ![p] = IF context = None
                                      THEN [proc EXCEPT !.pc = "AssertionError"]
                                      ELSE context_registered(proc, context)]
     /\ UNCHANGED <<store, published, registered, declared, last, connection>>

\* a process calls _prepare_execution_type
CallPrepareExecutionType(p, type_name, keys) ==
  /\ procs[p].pc = "idle"
  /\ procs' = [procs EXCEPT ![p] = InPrepareExecutionType("get_execution_type",
                                     type_name, keys, Unbound, FALSE)]
  /\ UNCHANGED <<store, published, registered, declared, last, connection>>

\* lines 269-299: the lookup, and the schema built when it does not qualify
GetExecutionType(p) ==
  LET proc == procs[p]
  IN /\ proc.pc = "get_execution_type"
     /\ procs' = [procs EXCEPT ![p] =
          [proc EXCEPT
             !.existing_execution_type =
               get_execution_type(execution_types, proc.type_name),
             !.pc = IF ExistingTypeQualifies(execution_types, proc.type_name,
                                             proc.keys)
                    THEN "returned"
                    ELSE IF proc.keys \cap EXECUTION_TYPE_RESERVED_KEYS # {}
                         THEN "AssertionError"
                         ELSE "put_execution_type"]]
     /\ UNCHANGED <<store, published, registered, declared, last, connection>>

\* lines 301-313: put_execution_type, and the handler of its rejection
PutExecutionType(p) ==
  LET proc == procs[p]
      accepted == put_execution_type_accepts(execution_types, proc.type_name,
                                             NewExecutionType(proc.keys))
  IN /\ proc.pc = "put_execution_type"
     /\ execution_types' =
          IF accepted
          THEN [execution_types EXCEPT ![proc.type_name] = NewExecutionType(proc.keys)]
          ELSE execution_types
     /\ procs' = [procs EXCEPT ![p] =
          [proc EXCEPT
             !.rejected = ~accepted,
             !.pc = IF accepted THEN "returned"
                    ELSE put_rejected_outcome(proc.existing_execution_type)]]
     /\ UNCHANGED <<executions, events, artifacts, context_types, contexts>>
     /\ UNCHANGED <<published, registered, declared, last, connection>>

\* a process inside publish_execution, past the loops of lines 414-443
InPublishExecution(pc, execution_id, input_dict, state) ==
  [pc |-> pc, execution_id |-> execution_id, input_dict |-> input_dict, state |-> state]

\* a process inside previous_execution: the candidates left to compare, and
\* the id it returns
InPreviousExecution(pc, input_artifacts, candidates, value) ==
  [pc |-> pc, input_artifacts |-> input_artifacts, candidates |-> candidates, value |-> value]

\* the store writes of publish_execution as they would be in the other
\* order, the events first
publish_steps_events_first == <<"put_events", "update_execution_state">>

\* the store writes of publish_execution in the order of lines 446-449
publish_steps == <<"update_execution_state", "put_events">>

\* line 448: put_events is called only when there are events
publish_steps_of(has_events) ==
  SelectSeq(publish_steps, LAMBDA step : step = "put_events" => has_events)

\* where publish_execution stands after one of its store writes
after_publish_step(step, has_events) ==
  LET steps == publish_steps_of(has_events)
      i == CHOOSE k \in 1..Len(steps) : steps[k] = step
  IN IF i < Len(steps) THEN steps[i + 1] ELSE "returned"

\* a process calls publish_execution on a new execution, with inputs that
\* have ids and no outputs (lines 411-443 touch no store then)
CallPublishExecution(p, execution_id, input_dict, state) ==
  /\ procs[p].pc = "idle"
  /\ published[execution_id].count = 0
  /\ \A q \in Processes :
       procs[q].pc \in {"update_execution_state", "put_events"}
         => procs[q].execution_id # execution_id
  /\ procs' = [procs EXCEPT ![p] =
       InPublishExecution(Head(publish_steps_of(DictSize(input_dict) > 0)),
                          execution_id, input_dict, state)]
  /\ published' = [published EXCEPT ![execution_id].input_dict = input_dict,
                                    ![execution_id].state = state]
  /\ UNCHANGED <<store, registered, declared, last, connection>>

\* lines 446-447: the execution is read and its state is written
UpdateExecutionState(p) ==
  LET proc == procs[p]
      next == after_publish_step("update_execution_state",
                                 DictSize(proc.input_dict) > 0)
  IN /\ proc.pc = "update_execution_state"
     /\ executions' = update_execution_state(executions, proc.execution_id, proc.state)
     /\ procs' = [procs EXCEPT ![p].pc = next]
     /\ published' = [published EXCEPT ![proc.execution_id].count =
                        IF next = "returned" THEN 1 ELSE @]
     /\ UNCHANGED <<execution_types, events, artifacts, context_types, contexts>>
     /\ UNCHANGED <<registered, declared, last, connection>>

\* lines 448-449: the events are written, in a store call of their own
PutEvents(p) ==
  LET proc == procs[p]
      next == after_publish_step("put_events", TRUE)
  IN /\ proc.pc = "put_events"
     /\ events' = events \o EventsOf(proc.execution_id, proc.input_dict, Event_INPUT)
     /\ procs' = [procs EXCEPT ![p].pc = next]
     /\ published' = [published EXCEPT ![proc.execution_id].count =
                        IF next = "returned" THEN 1 ELSE @]
     /\ UNCHANGED <<execution_types, executions, artifacts, context_types, contexts>>
     /\ UNCHANGED <<registered, declared, last, connection>>

\* the process dies between the store writes of publish_execution; another
\* takes its place
Crash(p) ==
  /\ procs[p].pc \in {"update_execution_state", "put_events"}
  /\ procs' = [procs EXCEPT ![p] = Idle]
  /\ UNCHANGED <<store, published, registered, declared, last, connection>>

\* a process calls previous_execution for a registered type with no declared
\* properties (the template of lines 528-532 changes no type then)
CallPreviousExecution(p, input_artifacts) ==
  /\ procs[p].pc = "idle"
  /\ procs' = [procs EXCEPT ![p] = InPreviousExecution("get_executions_by_context",
                                     input_artifacts, <<>>, None)]
  /\ UNCHANGED <<store, published, registered, declared, last, connection>>

\* lines 533-544: the pipeline context, its executions, the candidates
GetExecutionsByContext(p, exec_properties, pipeline_info, component_info) ==
  LET proc == procs[p]
      expected_previous_execution ==
        prepare_execution(EXECUTION_STATE_COMPLETE, exec_properties, pipeline_info,
                          component_info, NoFile)
      context == get_pipeline_context(contexts, pipeline_info)
      candidates == IF context = None THEN <<>>
                    ELSE candidate_execution_ids(executions, context,
                                                 expected_previous_execution)
  IN /\ proc.pc = "get_executions_by_context"
     /\ procs' = [procs EXCEPT ![p] =
          [proc EXCEPT !.candidates = candidates,
                       !.pc = IF Len(candidates) = 0 THEN "returned"
                              ELSE "get_events_by_execution_ids"]]
     /\ UNCHANGED <<store, published, registered, declared, last, connection>>

\* lines 473-485: one pass of the loop over the candidates
GetEventsByExecutionIds(p) ==
  LET proc == procs[p]
      execution_id == Head(proc.candidates)
  IN /\ proc.pc = "get_events_by_execution_ids"
     /\ procs' = [procs EXCEPT ![p] =
          IF DictIds(proc.input_artifacts) = execution_input_ids(events, execution_id)
          THEN [proc EXCEPT !.pc = "returned", !.value = execution_id]
          ELSE [proc EXCEPT !.candidates = Tail(@),
                            !.pc = IF Len(proc.candidates) = 1 THEN "returned"
                                   ELSE "get_events_by_execution_ids"]]
     /\ UNCHANGED <<store, published, registered, declared, last, connection>>

\* the caller goes on after the call returned or raised
Return(p) ==
  /\ procs[p].pc \in {"returned", "AssertionError", "ValueError", "UnboundLocalError"}
  /\ procs' = [procs EXCEPT ![p] = Idle]
  /\ UNCHANGED <<store, published, registered, declared, last, connection>>

(***************************************************************************)
(* Inputs shared by the specifications.                                    *)
(***************************************************************************)
ThePipeline == PipelineInfo("p1", "/root", "r1")
TheComponent == ComponentInfo("Trainer", "c1")
NoProperties == [k \in {} |-> [kind |-> "str", text |-> ""]]

\* the stored state of an execution
StateOf(execs, id) == execs[id].properties["state"]

\* the states publish_execution accepts (line 411)
TerminalStates == {EXECUTION_STATE_COMPLETE, EXECUTION_STATE_CACHED}

PublishStates ==
  {EXECUTION_STATE_NEW, EXECUTION_STATE_COMPLETE, EXECUTION_STATE_CACHED}

\* handles a caller can hold: no id yet, or the id of a stored artifact
Handles == 0..Len(artifacts)

\* execution ids a caller can pass: those register_execution returned
ExecutionIds == 1..Len(executions)

(***************************************************************************)
(* Spec: publishing.  One execution is registered and published, in every  *)
(* state, with every small output dict over handles with and without id.   *)
(***************************************************************************)
\* output handles: no id yet, or the id of the first stored artifact
OutputHandles == {h \in Handles : h <= 1}
PublishOutputDicts == DictsOver(Keys, OutputHandles, MaxLen, MaxLen)

Next ==
  \/ /\ executions = <<>>
     /\ RegisterExecution(NoProperties, ThePipeline, TheComponent, FALSE, NoFile)
  \/ \E execution_id \in ExecutionIds, output_dict \in PublishOutputDicts,
        state \in PublishStates :
        PublishExecution(execution_id, EmptyDict, output_dict, state)

Spec == Init /\ [][Next]_vars

(***************************************************************************)
(* SpecFetch: the round trip.  One execution is published with every shape *)
(* of new outputs and its outputs fetched with every shape.                *)
(***************************************************************************)
NewOutputDicts == DictsOver(Keys, {None}, MaxLen, MaxLen)
Shapes == {ShapeOf(d) : d \in NewOutputDicts}

NextFetch ==
  \/ /\ executions = <<>>
     /\ RegisterExecution(NoProperties, ThePipeline, TheComponent, FALSE, NoFile)
  \/ \E execution_id \in ExecutionIds, output_dict \in NewOutputDicts,
        state \in {EXECUTION_STATE_COMPLETE, EXECUTION_STATE_CACHED} :
        PublishExecution(execution_id, EmptyDict, output_dict, state)
  \/ \E shape \in Shapes, execution_id \in ExecutionIds :
        FetchPreviousResultArtifacts(shape, execution_id)

SpecFetch == Init /\ [][NextFetch]_vars

(***************************************************************************)
(* SpecCache: cache lookup by inputs.  Executions of one component, with   *)
(* the same properties, are registered under the pipeline's contexts and   *)
(* published COMPLETE with every small set of input artifacts; lookups ask *)
(* for every such set.  The input artifacts are published before the first *)
(* execution is registered, the contexts are registered once, and an       *)
(* execution is published once.                                            *)
(***************************************************************************)
\* one list per set of stored artifacts: the ids in increasing order
RECURSIVE ListOfSet(_)
ListOfSet(S) ==
  IF S = {} THEN <<>>
  ELSE LET m == CHOOSE a \in S : \A b \in S : a <= b
       IN <<m>> \o ListOfSet(S \ {m})

CacheInputDicts ==
  {EmptyDict} \cup
  {[k \in {"x"} |-> ListOfSet(S)] :
     S \in {T \in SUBSET (1..Len(artifacts)) : Cardinality(T) <= MaxLen}}

NextCache ==
  \/ /\ contexts = <<>>
     /\ RegisterContexts(ThePipeline, TheComponent)
  \/ /\ executions = <<>>
     /\ Len(artifacts) < MaxLen + 1
     /\ PublishArtifacts
  \/ /\ Len(executions) < MaxExecs
     /\ RegisterExecution(NoProperties, ThePipeline, TheComponent, TRUE, NoFile)
  \/ \E execution_id \in ExecutionIds, input_dict \in CacheInputDicts :
        /\ executions[execution_id].properties["state"] = EXECUTION_STATE_NEW
        /\ PublishExecution(execution_id, input_dict, EmptyDict, EXECUTION_STATE_COMPLETE)
  \/ \E input_artifacts \in CacheInputDicts :
        PreviousExecution(input_artifacts, NoProperties, ThePipeline, TheComponent, NoFile)

SpecCache == Init /\ [][NextCache]_vars

(***************************************************************************)
(* SpecProps: cache lookup by properties.  One execution is registered     *)
(* under run r1 with one of a few property dicts and published; lookups    *)
(* come from run r1 and from run r2 with each property dict.  A module     *)
(* file, when one is declared, holds one of two contents or is absent.     *)
(***************************************************************************)
StrValue(text) == [kind |-> "str", text |-> text]
IntValue(text) == [kind |-> "int", text |-> text]

PropertyDicts ==
  {NoProperties,
   "lr" :> StrValue("1"),
   "lr" :> IntValue("1"),
   "state" :> StrValue(EXECUTION_STATE_NEW),
   "state" :> StrValue(EXECUTION_STATE_COMPLETE),
   "run_id" :> StrValue("r9"),
   "module_file" :> StrValue("m.py")}

ContentsFor(exec_properties) ==
  IF "module_file" \in DOMAIN exec_properties THEN {NoFile, "A", "B"} ELSE {NoFile}

LookupRuns == {"r1", "r2"}

PropsOutputDicts == {EmptyDict, "x" :> <<None>>, "x" :> <<>>}

\* the inputs of a lookup: none, or, while no context is registered, one
\* stored artifact
LookupInputDicts ==
  {EmptyDict} \cup
  (IF contexts = <<>> THEN {[k \in {"x"} |-> <<a>>] : a \in 1..Len(artifacts)} ELSE {})

NextProps ==
  \/ RegisterContexts(ThePipeline, TheComponent)
  \/ /\ artifacts = <<>>
     /\ executions = <<>>
     /\ contexts = <<>>
     /\ PublishArtifacts
  \/ \E exec_properties \in PropertyDicts :
       \E contents \in ContentsFor(exec_properties) :
         /\ executions = <<>>
         /\ RegisterExecution(exec_properties, ThePipeline, TheComponent, TRUE, contents)
  \/ \E execution_id \in ExecutionIds, output_dict \in PropsOutputDicts,
        state \in TerminalStates :
        PublishExecution(execution_id, EmptyDict, output_dict, state)
  \/ \E exec_properties \in PropertyDicts, run_id \in LookupRuns :
       \E contents \in ContentsFor(exec_properties), input_artifacts \in LookupInputDicts :
         PreviousExecution(input_artifacts, exec_properties,
                           PipelineInfo("p1", "/root", run_id), TheComponent, contents)

SpecProps == Init /\ [][NextProps]_vars

(***************************************************************************)
(* SpecSlots: inputs and outputs together.  One artifact is published, one *)
(* execution is registered, and the execution is published, COMPLETE or    *)
(* CACHED, with every small input dict over handles with and without id    *)
(* and with an output dict of new artifacts.                               *)
(***************************************************************************)
SlotInputDicts == DictsOver(Keys, OutputHandles, MaxLen, MaxLen)

SlotOutputDicts == DictsOver({"x"}, {None}, MaxLen, MaxLen)

NextSlots ==
  \/ /\ artifacts = <<>>
     /\ PublishArtifacts
  \/ /\ executions = <<>>
     /\ RegisterExecution(NoProperties, ThePipeline, TheComponent, FALSE, NoFile)
  \/ \E execution_id \in ExecutionIds, input_dict \in SlotInputDicts,
        output_dict \in SlotOutputDicts, state \in TerminalStates :
        PublishExecution(execution_id, input_dict, output_dict, state)

SpecSlots == Init /\ [][NextSlots]_vars

(***************************************************************************)
(* SpecStates: an execution is registered with or without a declared       *)
(* property named state, and published in every state; a lookup declares   *)
(* the same properties or others.                                          *)
(***************************************************************************)
StateProperties ==
  {NoProperties,
   "lr" :> StrValue("1"),
   "state" :> StrValue(EXECUTION_STATE_NEW),
   "state" :> StrValue(EXECUTION_STATE_CACHED),
   "state" :> StrValue("running")}

NextStates ==
  \/ /\ contexts = <<>>
     /\ executions = <<>>
     /\ RegisterContexts(ThePipeline, TheComponent)
  \/ /\ executions = <<>>
     /\ \E exec_properties \in StateProperties :
          RegisterExecution(exec_properties, ThePipeline, TheComponent, TRUE, NoFile)
  \/ /\ executions # <<>>
     /\ last.op # "previous_execution"
     /\ \E exec_properties \in StateProperties :
          PreviousExecution(EmptyDict, exec_properties, ThePipeline, TheComponent, NoFile)
  \/ \E execution_id \in ExecutionIds, state \in PublishStates :
       \E output_dict \in PublishOutputDicts :
         PublishExecution(execution_id, EmptyDict, output_dict, state)

SpecStates == Init /\ [][NextStates]_vars

(***************************************************************************)
(* SpecMatch: cache lookup by the slots of the inputs.  The contexts are   *)
(* registered, artifacts are published, one execution is registered and    *)
(* published once with inputs in named slots; a lookup passes the stored   *)
(* artifacts in every arrangement of slots, repeated ones included.  A     *)
(* lookup for a registered type writes nothing, so one lookup is made from *)
(* each state of the store.                                                *)
(***************************************************************************)
MatchPublishDicts == DictsOver(Keys, 1..Len(artifacts), 1, MaxLen)

MatchLookupDicts == DictsOver(Keys, 1..Len(artifacts), MaxLen, MaxLen + 1)

NextMatch ==
  \/ /\ contexts = <<>>
     /\ RegisterContexts(ThePipeline, TheComponent)
  \/ /\ executions = <<>>
     /\ Len(artifacts) < MaxLen + 1
     /\ PublishArtifacts
  \/ /\ contexts # <<>>
     /\ executions = <<>>
     /\ RegisterExecution(NoProperties, ThePipeline, TheComponent, TRUE, NoFile)
  \/ \E execution_id \in ExecutionIds :
        /\ executions[execution_id].properties["state"] = EXECUTION_STATE_NEW
        /\ \E input_dict \in MatchPublishDicts :
             PublishExecution(execution_id, input_dict, EmptyDict, EXECUTION_STATE_COMPLETE)
  \/ /\ executions # <<>>
     /\ last.op # "previous_execution"
     /\ \E input_artifacts \in MatchLookupDicts :
          PreviousExecution(input_artifacts, NoProperties, ThePipeline, TheComponent, NoFile)

SpecMatch == Init /\ [][NextMatch]_vars

(***************************************************************************)
(* SpecConnect: two Metadata objects are entered, used and exited, with    *)
(* and without exception; each connection attempt may fail with the        *)
(* retried error.  The loop of        *)
(* __enter__ sleeps less than a second and goes on, so a pending pass is   *)
(* eventually made.                                                        *)
(***************************************************************************)
\* what a with block ends with: nothing, or an exception
ExcTypes == {"None", "Exception"}

EnterStep(m) ==
  \/ \E connected \in BOOLEAN : ConnectAttempt(m, connected)
  \/ EnterRaises(m)

NextConnect ==
  \E m \in MetadataObjects :
    \/ Enter(m)
    \/ EnterStep(m)
    \/ \E exc_type \in ExcTypes : Exit(m, exc_type)
    \/ AccessStore(m)

SpecConnect ==
  /\ Init
  /\ [][NextConnect]_vars
  /\ \A m \in MetadataObjects : WF_vars(EnterStep(m))

(***************************************************************************)
(* SpecTypes: _prepare_execution_type called with every set of declared    *)
(* keys, a reserved key among them, for one type name.                     *)
(***************************************************************************)
DeclaredKeys == {"lr", "module_file", "state", "run_id"}

NextTypes ==
  \E keys \in SUBSET DeclaredKeys :
    PrepareExecutionType(TheComponent.component_type, keys)

SpecTypes == Init /\ [][NextTypes]_vars

(***************************************************************************)
(* SpecTypeRace: the processes call _prepare_execution_type for one type   *)
(* name against one store, and their store calls interleave.               *)
(***************************************************************************)
NextTypeRace ==
  \E p \in Processes :
    \/ \E keys \in SUBSET DeclaredKeys :
         CallPrepareExecutionType(p, TheComponent.component_type, keys)
    \/ GetExecutionType(p)
    \/ PutExecutionType(p)
    \/ Return(p)

SpecTypeRace == Init /\ [][NextTypeRace]_vars

(***************************************************************************)
(* SpecPublishRace: once the contexts, the artifacts and the executions    *)
(* are there, the processes publish the executions and look for previous   *)
(* executions, and their store calls interleave.                           *)
(***************************************************************************)
RaceInputDicts ==
  {EmptyDict} \cup {[k \in {"x"} |-> <<a>>] : a \in 1..Len(artifacts)}

NextPublishRace ==
  \/ /\ contexts = <<>>
     /\ RegisterContexts(ThePipeline, TheComponent)
  \/ /\ executions = <<>>
     /\ artifacts = <<>>
     /\ PublishArtifacts
  \/ /\ contexts # <<>>
     /\ Len(executions) < MaxExecs
     /\ RegisterExecution(NoProperties, ThePipeline, TheComponent, TRUE, NoFile)
  \/ \E p \in Processes :
       \/ \E execution_id \in ExecutionIds, input_dict \in RaceInputDicts :
            CallPublishExecution(p, execution_id, input_dict, EXECUTION_STATE_COMPLETE)
       \/ UpdateExecutionState(p)
       \/ PutEvents(p)
       \/ Crash(p)
       \/ \E input_artifacts \in RaceInputDicts :
            CallPreviousExecution(p, input_artifacts)
       \/ GetExecutionsByContext(p, NoProperties, ThePipeline, TheComponent)
       \/ GetEventsByExecutionIds(p)
       \/ Return(p)

SpecPublishRace == Init /\ [][NextPublishRace]_vars

(***************************************************************************)
(* SpecContexts: register_contexts_if_not_exists for the runs of one       *)
(* pipeline, a run without run id among them, and two components.          *)
(***************************************************************************)
RunIds == {"r1", "r2", NoRunId}

ComponentIds == {"c1", "c2"}

NextContexts ==
  \E run_id \in RunIds, component_id \in ComponentIds :
    RegisterContexts(PipelineInfo("p1", "/root", run_id),
                     ComponentInfo("Trainer", component_id))

SpecContexts == Init /\ [][NextContexts]_vars

(***************************************************************************)
(* SpecRace: the processes call register_contexts_if_not_exists for runs   *)
(* of one pipeline against one store, and their store calls interleave.    *)
(***************************************************************************)
NextRace ==
  \E p \in Processes :
    \/ \E run_id \in RunIds :
         CallRegisterContexts(p, PipelineInfo("p1", "/root", run_id), TheComponent)
    \/ PutContextType(p)
    \/ PutContexts(p)
    \/ GetContext(p)

SpecRace == Init /\ [][NextRace]_vars

(***************************************************************************)
(* Properties of publish_execution (Spec).                                 *)
(***************************************************************************)
\* C5: publish_execution with state CACHED and an output artifact that has no
\* id ends in an error, and that call writes no artifact and no event and
\* leaves every stored execution, its state included, as it was.
C5_CachedOutputNeedsId ==
  [][(/\ last'.op = "publish_execution"
      /\ last'.args.state = EXECUTION_STATE_CACHED
      /\ last'.args.output_unset)
     => /\ last'.outcome \in {"RuntimeError:input", "RuntimeError:output"}
        /\ artifacts' = artifacts
        /\ events' = events
        /\ executions' = executions]_vars

\* a CACHED publish of an output without id has been refused on a NEW execution
C5_Witness ==
  /\ last.op = "publish_execution"
  /\ last.args.state = EXECUTION_STATE_CACHED
  /\ last.args.output_unset
  /\ last.outcome = "RuntimeError:output"
  /\ StateOf(executions, last.args.execution_id) = EXECUTION_STATE_NEW

\* C9: once the stored state of an execution is COMPLETE or CACHED, no step
\* changes it.
C9_TerminalStateKept ==
  [][\A id \in 1..Len(executions) :
       StateOf(executions, id) \in TerminalStates
         => StateOf(executions', id) = StateOf(executions, id)]_vars

\* C10: publish_execution with a state other than COMPLETE and CACHED ends
\* in the state error, and that call changes nothing in the store.
C10_OtherStateRefused ==
  [][(/\ last'.op = "publish_execution"
      /\ last'.args.state \notin TerminalStates)
     => /\ last'.outcome = "RuntimeError:state"
        /\ UNCHANGED store]_vars

\* a publish with state NEW has been refused
C10_Witness ==
  /\ last.op = "publish_execution"
  /\ last.args.state = EXECUTION_STATE_NEW
  /\ last.outcome = "RuntimeError:state"

(***************************************************************************)
(* Properties of the publish / fetch round trip (SpecFetch).               *)
(***************************************************************************)
\* C1: when an execution has been published once, with state COMPLETE and
\* output dict O, fetch_previous_result_artifacts for the shape of O and
\* that execution succeeds and attaches to every slot of every name the id
\* publish gave the artifact of that slot.
C1_RoundTrip ==
  (/\ last.op = "fetch_previous_result_artifacts"
   /\ published[last.args.execution_id].count = 1
   /\ published[last.args.execution_id].state = EXECUTION_STATE_COMPLETE
   /\ last.args.shape = ShapeOf(published[last.args.execution_id].output_dict))
  => /\ last.outcome = "ok"
     /\ last.value = published[last.args.execution_id].output_dict

(***************************************************************************)
(* Properties of register_contexts_if_not_exists (SpecContexts).           *)
(***************************************************************************)
IdentityOf(call) ==
  <<call.args.pipeline_info.pipeline_name, call.args.pipeline_info.run_id,
    call.args.component_info.component_id>>

C7_IncreasingAlwaysSucceeds ==
  /\ [](\A t \in ComponentTypes :
          (declared[t].called /\ declared[t].increasing)
            => /\ declared[t].succeeded
               /\ declared[t].union \subseteq execution_types[t])
  /\ [][\A t \in ComponentTypes :
          execution_types[t] \subseteq execution_types'[t]]_vars

\* C7, amended: whenever the declared sets of the calls for a type name are
\* increasing and hold no reserved key, every call has succeeded and the
\* stored schema holds every key declared so far; and no step removes a key
\* from a stored schema.
C7_TypeGrowth ==
  /\ [](\A t \in ComponentTypes :
          (declared[t].called /\ declared[t].increasing
             /\ declared[t].reserved_free)
            => /\ declared[t].succeeded
               /\ declared[t].union \subseteq execution_types[t])
  /\ [][\A t \in ComponentTypes :
          execution_types[t] \subseteq execution_types'[t]]_vars

\* a second call has declared more keys than the first and the schema grew
C7_Witness ==
  \E t \in ComponentTypes :
    /\ declared[t].increasing
    /\ declared[t].reserved_free
    /\ declared[t].grown
    /\ declared[t].union = {"lr", "module_file"}
    /\ execution_types[t] = NewExecutionType({"lr", "module_file"})

(***************************************************************************)
(* Properties of previous_execution by inputs (SpecCache).                 *)
(***************************************************************************)
\* the executions under the pipeline context that equal the lookup's template
EligibleFor(call) ==
  LET context == get_pipeline_context(contexts, call.args.pipeline_info)
      template == prepare_execution(EXECUTION_STATE_COMPLETE,
                    call.args.exec_properties, call.args.pipeline_info,
                    call.args.component_info, call.args.contents)
  IN IF context = None THEN {}
     ELSE {id \in 1..Len(executions) :
             /\ context \in executions[id].contexts
             /\ is_eligible_previous_execution(template,
                                               ExecutionProto(executions, id))}

\* the W highest ids of a set of ids
HighestOf(ids) ==
  {id \in ids :
     Cardinality({other \in ids : other > id}) < MAX_EXECUTIONS_FOR_CACHE}

\* C3: previous_execution returns an execution id only if the artifact ids
\* of that execution's INPUT and DECLARED_INPUT events are exactly the
\* artifact ids of the lookup's input dict.
C3_HitOnlyOnEqualInputs ==
  (last.op = "previous_execution" /\ last.value # None)
    => execution_input_ids(events, last.value) = DictIds(last.args.input_artifacts)

\* execution 1 consumed {1, 2}; a lookup with {1, 3} found nothing
C3_Witness ==
  /\ last.op = "previous_execution"
  /\ DictIds(last.args.input_artifacts) = {1, 3}
  /\ last.value = None
  /\ EligibleFor(last) = {1}
  /\ execution_input_ids(events, 1) = {1, 2}

\* C4: previous_execution returns only one of the W highest ids among the
\* executions that equal the template; when there are more than W of those
\* and none of the W highest has the lookup's input ids, it returns none.
C4_WindowBound ==
  last.op = "previous_execution"
    => /\ last.value # None => last.value \in HighestOf(EligibleFor(last))
       /\ (/\ Cardinality(EligibleFor(last)) > MAX_EXECUTIONS_FOR_CACHE
           /\ \A id \in HighestOf(EligibleFor(last)) :
                 execution_input_ids(events, id)
                   # DictIds(last.args.input_artifacts))
          => last.value = None

\* the only execution with the lookup's inputs is below the window: no hit
C4_Witness ==
  /\ last.op = "previous_execution"
  /\ last.value = None
  /\ Cardinality(EligibleFor(last)) > MAX_EXECUTIONS_FOR_CACHE
  /\ \E id \in EligibleFor(last) \ HighestOf(EligibleFor(last)) :
        execution_input_ids(events, id) = DictIds(last.args.input_artifacts)

(***************************************************************************)
(* Properties of previous_execution by properties (SpecProps).             *)
(***************************************************************************)
\* C2: when the only execution was registered under the pipeline's context
\* with run id r1 and published COMPLETE once, a lookup with another run id
\* and the same pipeline name and root, component, declared properties,
\* module file contents and input ids returns that execution's id, and
\* fetch_previous_result_artifacts for it yields the published output ids.
C2_HitAcrossRuns ==
  (/\ last.op = "previous_execution"
   /\ Len(executions) = 1
   /\ published[1].count = 1
   /\ published[1].state = EXECUTION_STATE_COMPLETE
   /\ get_pipeline_context(contexts, last.args.pipeline_info) \in executions[1].contexts
   /\ published[1].call.exec_properties = last.args.exec_properties
   /\ published[1].call.contents = last.args.contents
   /\ published[1].call.component_info = last.args.component_info
   /\ published[1].call.pipeline_info.pipeline_name
        = last.args.pipeline_info.pipeline_name
   /\ published[1].call.pipeline_info.pipeline_root
        = last.args.pipeline_info.pipeline_root
   /\ published[1].call.pipeline_info.run_id # last.args.pipeline_info.run_id
   /\ DictIds(published[1].input_dict) = DictIds(last.args.input_artifacts))
  => /\ last.outcome = "ok"
     /\ last.value = 1
     /\ fetch_previous_result_artifacts(events, ShapeOf(published[1].output_dict), 1)
          = [outcome |-> "ok", value |-> published[1].output_dict]

\* C8: previous_execution never returns the id of an execution whose stored
\* state is NEW.
C8_NewNeverReturned ==
  (last.op = "previous_execution" /\ last.value # None)
    => StateOf(executions, last.value) # EXECUTION_STATE_NEW

(***************************************************************************)
(* Properties of publish_execution with inputs (SpecSlots).                *)
(***************************************************************************)
\* C11: publish_execution with state COMPLETE or CACHED and an input
\* artifact that has no id ends in the missing-id error, and that call
\* publishes no artifact, writes no event and leaves every stored
\* execution, its state included, as it was.
C11_InputNeedsId ==
  [][(/\ last'.op = "publish_execution"
      /\ last'.args.state \in TerminalStates
      /\ last'.args.input_unset)
     => /\ last'.outcome = "RuntimeError:input"
        /\ artifacts' = artifacts
        /\ events' = events
        /\ executions' = executions]_vars

\* a COMPLETE publish with an input without id, and an output to publish,
\* has been refused on a NEW execution
C11_Witness ==
  /\ last.op = "publish_execution"
  /\ last.args.state = EXECUTION_STATE_COMPLETE
  /\ last.args.input_unset
  /\ last.args.output_unset
  /\ last.outcome = "RuntimeError:input"
  /\ StateOf(executions, last.args.execution_id) = EXECUTION_STATE_NEW

(***************************************************************************)
(* Properties of register_execution (SpecProps).                           *)
(***************************************************************************)
\* the names the specification reserves: the code's set (lines 70-74) and state
ReservedPropertyNames == EXECUTION_TYPE_RESERVED_KEYS \cup {"state"}

\* C12: register_execution with a declared property whose name is reserved
\* (checksum_md5, pipeline_name, pipeline_root, run_id, component_id, state)
\* ends in an error and stores no execution, whether or not the execution
\* type exists already.
C12_ReservedKeyRefused ==
  [][(/\ last'.op = "register_execution"
      /\ DOMAIN last'.args.exec_properties \cap ReservedPropertyNames # {})
     => /\ last'.outcome # "ok"
        /\ executions' = executions]_vars

\* the context types of the contexts with the given ids, in order
ContextTypesOf(ids) == [i \in 1..Len(ids) |-> contexts[ids[i]].type]

\* C13: register_contexts_if_not_exists succeeds; with a run id it returns
\* the pipeline context, the pipeline-run context and the component-run
\* context in that order, and without one the pipeline context and the
\* component-run context, no pipeline-run context being stored for the call.
C13_OrderedContexts ==
  last.op = "register_contexts_if_not_exists"
    => /\ last.outcome = "ok"
       /\ RunIdGiven(last.args.pipeline_info.run_id)
            => ContextTypesOf(last.value)
                 = <<CONTEXT_TYPE_PIPELINE, CONTEXT_TYPE_PIPELINE_RUN,
                     CONTEXT_TYPE_COMPONENT_RUN>>
       /\ ~RunIdGiven(last.args.pipeline_info.run_id)
            => /\ ContextTypesOf(last.value)
                    = <<CONTEXT_TYPE_PIPELINE, CONTEXT_TYPE_COMPONENT_RUN>>
               /\ get_context_by_type_and_name(contexts, CONTEXT_TYPE_PIPELINE_RUN,
                    pipeline_run_context_name(last.args.pipeline_info)) = None

(***************************************************************************)
(* Properties of __enter__ (SpecConnect).                                  *)
(***************************************************************************)
\* C14: __enter__ makes at most _MAX_INIT_RETRY connection attempts; while
\* it is in its loop no attempt has succeeded; when it has returned, its
\* last attempt connected and _store is set; when it has raised, all
\* _MAX_INIT_RETRY attempts failed and _store is unset; and every __enter__
\* ends, returning or raising.
C14_EnterWithinCeiling ==
  /\ [](\A m \in MetadataObjects :
          /\ connection[m].attempts <= MAX_INIT_RETRY
          /\ connection[m].pc = "entering" => connection[m]._store = NoStore
          /\ connection[m].pc = "entered"
               => /\ connection[m]._store = MetadataStore
                  /\ connection[m].attempts >= 1
          /\ connection[m].pc = "raised"
               => /\ connection[m]._store = NoStore
                  /\ connection[m].attempts = MAX_INIT_RETRY)
  /\ \A m \in MetadataObjects :
       (connection[m].pc = "entering")
         ~> (connection[m].pc \in {"entered", "raised"})

\* one __enter__ raised after the last attempt while the other object
\* connected at a later attempt than its first
C14_Witness ==
  /\ connection["m1"].pc = "raised"
  /\ connection["m1"].attempts = MAX_INIT_RETRY
  /\ connection["m2"].pc = "entered"
  /\ connection["m2"].attempts > 1

(***************************************************************************)
(* Properties of concurrent registration (SpecRace).                       *)
(***************************************************************************)
Failed(proc) == proc.pc \in {"RuntimeError:property", "AssertionError"}

SameIdentity(p, q) ==
  /\ procs[p].pc # "idle"
  /\ procs[q].pc # "idle"
  /\ procs[p].pipeline_info = procs[q].pipeline_info
  /\ procs[p].component_info = procs[q].component_info

OnePerTypeAndName(ctxs) ==
  \A i, j \in 1..Len(ctxs) :
    (ctxs[i].type = ctxs[j].type /\ ctxs[i].name = ctxs[j].name) => i = j

\* the contexts of the identity of a process, one of each of its levels
StoredFor(proc) ==
  \A level \in 1..Len(ContextLevels(proc.pipeline_info)) :
    LET context_type_name == ContextLevels(proc.pipeline_info)[level]
    IN get_context_by_type_and_name(contexts, context_type_name,
         ContextNameAt(context_type_name, proc.pipeline_info, proc.component_info))
       # None

\* C15: when two processes call register_contexts_if_not_exists with the
\* same identity, in every interleaving neither call fails, both return the
\* same context ids, and the store holds exactly one context per type and
\* name of that identity.
C15_ConcurrentRegistrationSafe ==
  \A p, q \in Processes :
    (p # q /\ SameIdentity(p, q))
      => /\ ~Failed(procs[p])
         /\ OnePerTypeAndName(contexts)
         /\ (procs[p].pc = "returned" /\ procs[q].pc = "returned")
              => /\ procs[p].result = procs[q].result
                 /\ StoredFor(procs[p])

(***************************************************************************)
(* Properties of concurrent type registration (SpecTypeRace).              *)
(***************************************************************************)
InTypeCall(proc) ==
  proc.pc \in {"get_execution_type", "put_execution_type", "returned",
               "AssertionError", "ValueError", "UnboundLocalError"}

\* C16: whenever the store rejects the put_execution_type of a process,
\* _prepare_execution_type fails in that process with ValueError, also when
\* its lookup found no type and another process registered one in between.
C16_ConflictIsValueError ==
  \A p \in Processes :
    (InTypeCall(procs[p]) /\ procs[p].rejected) => procs[p].pc = "ValueError"

(***************************************************************************)
(* Properties of a publish interleaved with a lookup (SpecPublishRace).    *)
(***************************************************************************)
\* C17: in every interleaving of publish_execution and previous_execution,
\* a lookup returns the id of an execution only if the lookup's input
\* artifact ids are the ids of the inputs that execution was published with.
C17_HitOnlyOnPublishedInputs ==
  \A p \in Processes :
    (procs[p].pc = "returned" /\ "value" \in DOMAIN procs[p] /\ procs[p].value # None)
      => DictIds(procs[p].input_artifacts)
           = DictIds(published[procs[p].value].input_dict)

(***************************************************************************)
(* Properties of the events of an execution (SpecSlots).                   *)
(***************************************************************************)
\* the slots {(key, i) : 0 <= i < len(d[key])} of a dict
SlotSet(d) == UNION {{<<k, i - 1>> : i \in 1..Len(d[k])} : k \in DOMAIN d}

\* the (key, index) pairs of the events of one type of an execution
EventSlots(execution_id, event_type) ==
  LET es == get_events_by_execution_ids(events, execution_id)
  IN {<<es[i].key, es[i].index>> : i \in {j \in 1..Len(es) : es[j].type = event_type}}

\* C18: once a publish_execution on an execution has returned, the (key,
\* index) pairs of its OUTPUT events are the slots of the output map passed
\* to publish and those of its INPUT events are the slots of the input map,
\* whatever is called afterwards.
C18_EventsAreTheSlots ==
  \A execution_id \in 1..Len(published) :
    published[execution_id].count > 0
      => /\ EventSlots(execution_id, Event_OUTPUT)
              = SlotSet(published[execution_id].output_dict)
         /\ EventSlots(execution_id, Event_INPUT)
              = SlotSet(published[execution_id].input_dict)

(***************************************************************************)
(* Properties of the choice among several matches (SpecCache).             *)
(***************************************************************************)
\* the executions in the window of the lookup whose input ids are the lookup's
MatchesOf(call) ==
  {id \in HighestOf(EligibleFor(call)) :
     execution_input_ids(events, id) = DictIds(call.args.input_artifacts)}

NoPipelineContextFor(call) ==
  get_pipeline_context(contexts, call.args.pipeline_info) = None

\* C20 as stated: when no pipeline context exists for the pipeline of the
\* lookup, previous_execution ends normally and returns none, whatever the
\* declared properties and inputs.
C20_NoneWithoutContext ==
  [][(last'.op = "previous_execution" /\ NoPipelineContextFor(last'))
     => /\ last'.outcome = "ok"
        /\ last'.value = None]_vars

\* C20, amended: when no pipeline context exists for the pipeline of the
\* lookup, previous_execution returns no id, and it ends normally whenever
\* the type resolution of its template succeeds; it raises exactly when
\* that resolution does (a reserved key declared for a schema that has to
\* be built, or a schema the store refuses).
C20_NoneWithoutContextOnceTemplateBuilt ==
  [][(last'.op = "previous_execution" /\ NoPipelineContextFor(last'))
     => /\ last'.value = None
        /\ last'.outcome = prepare_execution_type_result(execution_types,
                              last'.args.component_info.component_type,
                              DOMAIN last'.args.exec_properties)
        /\ last'.outcome \in {"ok", "AssertionError", "ValueError"}]_vars

\* no context exists; an execution registered without contexts is COMPLETE,
\* equals the template of a lookup and consumed its inputs; the lookup
\* returned none
C20_Witness ==
  /\ last.op = "previous_execution"
  /\ contexts = <<>>
  /\ last.outcome = "ok"
  /\ last.value = None
  /\ DictIds(last.args.input_artifacts) = {}
  /\ Len(executions) = 1
  /\ StateOf(executions, 1) = EXECUTION_STATE_COMPLETE
  /\ is_eligible_previous_execution(
       prepare_execution(EXECUTION_STATE_COMPLETE, last.args.exec_properties,
                         last.args.pipeline_info, last.args.component_info,
                         last.args.contents),
       ExecutionProto(executions, 1))

(***************************************************************************)
(* Properties of the comparison of inputs (SpecMatch).                     *)
(***************************************************************************)
\* C21: a lookup matches a published execution exactly when the set of the
\* artifact ids it passes is the set of the artifact ids the execution was
\* published with: slot names, indices and repetitions play no part, and a
\* strict subset or strict superset of the ids does not match.
C21_MatchIsIdSetEquality ==
  (/\ last.op = "previous_execution"
   /\ Len(executions) = 1
   /\ published[1].count = 1)
    => (last.value = 1
          <=> DictIds(last.args.input_artifacts) = DictIds(published[1].input_dict))

\* the execution consumed artifact 1 in slot (x, 0) and artifact 2 in slot
\* (y, 0); a lookup passing 2 twice in slot x and 1 in slot y returned it
C21_Witness ==
  /\ last.op = "previous_execution"
  /\ Len(executions) = 1
  /\ published[1].count = 1
  /\ published[1].input_dict = [k \in {"x", "y"} |-> IF k = "x" THEN <<1>> ELSE <<2>>]
  /\ last.args.input_artifacts = [k \in {"x", "y"} |-> IF k = "x" THEN <<2, 2>> ELSE <<1>>]
  /\ last.value = 1

(***************************************************************************)
(* Properties of the consistency check of the fetch (SpecFetch).           *)
(***************************************************************************)
\* the distinct indices of the OUTPUT events of an execution for one name
OutputIndices(execution_id, output_name) ==
  LET es == get_events_by_execution_ids(events, execution_id)
  IN {es[i].index : i \in {j \in 1..Len(es) : /\ es[j].type = Event_OUTPUT
                                                /\ es[j].key = output_name}}

\* the names for which the execution has OUTPUT events
OutputNames(execution_id) ==
  LET es == get_events_by_execution_ids(events, execution_id)
  IN {es[i].key : i \in {j \in 1..Len(es) : es[j].type = Event_OUTPUT}}

\* C22: fetch_previous_result_artifacts raises RuntimeError whenever, for a
\* requested name, the number of distinct indices of the execution's OUTPUT
\* events for that name is not the number of artifacts requested, a name
\* without OUTPUT events included; and when every requested name has
\* OUTPUT events in the requested number it succeeds, whatever other names
\* the execution has events for.
C22_CountMismatchFails ==
  last.op = "fetch_previous_result_artifacts"
    => LET execution_id == last.args.execution_id
           shape == last.args.shape
       IN /\ (\E k \in DOMAIN shape :
                 \/ Cardinality(OutputIndices(execution_id, k)) # shape[k]
                 \/ k \notin OutputNames(execution_id))
               => last.outcome \in {"RuntimeError:name", "RuntimeError:count"}
          /\ (\A k \in DOMAIN shape :
                 /\ k \in OutputNames(execution_id)
                 /\ Cardinality(OutputIndices(execution_id, k)) = shape[k])
               => last.outcome = "ok"

\* the execution has two OUTPUT indices for x and the caller asked for one
\* artifact: the fetch raised on the count
C22_Witness ==
  /\ last.op = "fetch_previous_result_artifacts"
  /\ last.args.shape = [k \in {"x"} |-> 1]
  /\ OutputIndices(last.args.execution_id, "x") = {0, 1}
  /\ last.outcome = "RuntimeError:count"

(***************************************************************************)
(* Properties of the artifact ids of events (Spec).                        *)
(***************************************************************************)
\* the events a step added
AddedEvents == SubSeq(events', Len(events) + 1, Len(events'))

\* C23: every stored event references the id of a stored artifact (never
\* the unset id); and a COMPLETE publish that succeeds stores one new
\* artifact per output without id and none for an output with an id, and
\* the OUTPUT event of each slot references the id the output had, or the
\* id it received in this publish.
C23_IdsBeforeEvents ==
  /\ [](\A i \in 1..Len(events) : events[i].artifact_id \in 1..Len(artifacts))
  /\ [][\A execution_id \in ExecutionIds, output_dict \in PublishOutputDicts :
         (/\ PublishExecution(execution_id, EmptyDict, output_dict,
                              EXECUTION_STATE_COMPLETE)
          /\ last'.outcome = "ok")
           => /\ Len(artifacts') = Len(artifacts) + UnsetIn(output_dict)
              /\ Len(AddedEvents) = DictSize(output_dict)
              /\ \A m \in 1..Len(AddedEvents) :
                   LET slot == Slots(output_dict)[m]
                       had == output_dict[slot[1]][slot[2]]
                   IN /\ AddedEvents[m].type = Event_OUTPUT
                      /\ AddedEvents[m].key = slot[1]
                      /\ AddedEvents[m].index = slot[2] - 1
                      /\ had # None => AddedEvents[m].artifact_id = had
                      /\ had = None
                           => AddedEvents[m].artifact_id \in
                                (Len(artifacts) + 1)..Len(artifacts')
              /\ \A m, n \in 1..Len(AddedEvents) :
                   (m # n /\ AddedEvents[m].artifact_id > Len(artifacts))
                     => AddedEvents[m].artifact_id # AddedEvents[n].artifact_id]_vars

\* after a first publish stored artifact 1, a COMPLETE publish of an output
\* that holds id 1 succeeded: no artifact was added, and its event
\* references id 1
C23_Witness ==
  /\ last.op = "publish_execution"
  /\ last.args.state = EXECUTION_STATE_COMPLETE
  /\ ~last.args.output_unset
  /\ last.outcome = "ok"
  /\ Len(artifacts) = 1
  /\ Len(events) = 2
  /\ events[1].artifact_id = 1
  /\ events[2].artifact_id = 1
  /\ events[2].type = Event_OUTPUT

(***************************************************************************)
(* Properties of the checksum of the module file (SpecProps).              *)
(***************************************************************************)
\* C24: an execution registered with a module file whose content had
\* checksum h1 is returned by a lookup with the same declared properties
\* only if the module file's content now has checksum h1.
C24_ChecksumDistinguishes ==
  (last.op = "previous_execution" /\ last.value # None)
    => LET call == published[last.value].call
       IN (/\ call.exec_properties = last.args.exec_properties
           /\ "module_file" \in DOMAIN call.exec_properties
           /\ call.contents # NoFile
           /\ last.args.contents # NoFile)
            => Md5(last.args.contents) = Md5(call.contents)

\* the execution was registered in run r1 with module file content A and
\* is COMPLETE; a lookup from run r2 with the same declared properties and
\* content B returned none, and with content A it would equal the template
C24_Witness ==
  /\ last.op = "previous_execution"
  /\ last.value = None
  /\ last.outcome = "ok"
  /\ last.args.contents = "B"
  /\ last.args.pipeline_info.run_id = "r2"
  /\ Len(executions) = 1
  /\ published[1].call.contents = "A"
  /\ published[1].call.exec_properties = last.args.exec_properties
  /\ StateOf(executions, 1) = EXECUTION_STATE_COMPLETE
  /\ get_pipeline_context(contexts, last.args.pipeline_info) \in executions[1].contexts
  /\ is_eligible_previous_execution(
       prepare_execution(EXECUTION_STATE_COMPLETE, last.args.exec_properties,
                         last.args.pipeline_info, last.args.component_info, "A"),
       ExecutionProto(executions, 1))

(***************************************************************************)
(* Properties of the stored state values (SpecStates).                     *)
(***************************************************************************)
\* C25: the state property of every stored execution is NEW, COMPLETE or
\* CACHED, whatever declared properties register_execution accepted.
C25_ThreeStateValues ==
  \A execution_id \in 1..Len(executions) :
    StateOf(executions, execution_id)
      \in {EXECUTION_STATE_NEW, EXECUTION_STATE_COMPLETE, EXECUTION_STATE_CACHED}

(***************************************************************************)
(* Properties of the scope of the connection (SpecConnect).                *)
(***************************************************************************)
\* C26: the store property raises whenever the object is not inside a with
\* block (before __enter__, after __exit__, after a failed __enter__) and
\* returns the handle inside one; __exit__ unsets the handle whatever the
\* block ended with; and a later __enter__ starts without handle and holds
\* one only from a connection attempt of its own.
C26_ConnectionScoped ==
  /\ [][\A m \in MetadataObjects :
          (AccessStore(m) /\ last' # last)
            => (last'.outcome = "RuntimeError" <=> connection[m].pc # "entered")]_vars
  /\ [][\A m \in MetadataObjects, exc_type \in ExcTypes :
          Exit(m, exc_type)
            => /\ connection'[m]._store = NoStore
               /\ store_accessor(connection'[m]) = "RuntimeError"]_vars
  /\ [][\A m \in MetadataObjects :
          Enter(m) => connection'[m]._store = NoStore /\ connection'[m].attempts = 0]_vars
  /\ [](\A m \in MetadataObjects :
          connection[m].pc = "entered"
            => connection[m]._store = MetadataStore /\ connection[m].attempts >= 1)

\* object m1 has been exited and the store property then raised, while m2
\* is inside a with block and holds a handle
C26_Witness ==
  /\ last.op = "store"
  /\ last.args.object = "m1"
  /\ last.outcome = "RuntimeError"
  /\ connection["m1"].pc = "exited"
  /\ connection["m2"].pc = "entered"
  /\ connection["m2"]._store = MetadataStore

(***************************************************************************)
(* Properties of the order of the writes of a publish (SpecPublishRace).   *)
(***************************************************************************)
\* C27: in every state, those between the two store writes of a publish and
\* those after a crash between them included, an execution that has a
\* stored event is COMPLETE or CACHED; a NEW execution has no event.
C27_EventsImplyTerminal ==
  \A i \in 1..Len(events) :
    StateOf(executions, events[i].execution_id) \in TerminalStates

\* execution 1 was published with an input and has its event; the process
\* that published execution 2 died after it wrote the state, before the
\* events
C27_Witness ==
  /\ Len(executions) = 2
  /\ Len(events) > 0
  /\ \A i \in 1..Len(events) : events[i].execution_id = 1
  /\ StateOf(executions, 1) = EXECUTION_STATE_COMPLETE
  /\ StateOf(executions, 2) = EXECUTION_STATE_COMPLETE
  /\ published[2].count = 0
  /\ DictSize(published[2].input_dict) > 0
  /\ \A p \in Processes : procs[p].pc = "idle"

(***************************************************************************)
(* Properties of the state of a returned execution (SpecStates).           *)
(***************************************************************************)
\* C28: previous_execution returns only executions whose stored state is
\* COMPLETE; a CACHED execution is never returned.
C28_OnlyCompleteReturned ==
  (last.op = "previous_execution" /\ last.value # None)
    => StateOf(executions, last.value) = EXECUTION_STATE_COMPLETE

(***************************************************************************)
(* Properties of what a lookup writes (SpecProps).                         *)
(***************************************************************************)
\* C29: a previous_execution call leaves the stored executions, events,
\* artifacts, contexts and context types as they were; the only thing it
\* may write is the execution type of the component, which it registers or
\* extends to the schema of the template, and only when the call succeeds
\* in building the template.
C29_LookupWritesOnlyTheType ==
  [][last'.op = "previous_execution"
     => LET type_name == last'.args.component_info.component_type
            keys == DOMAIN last'.args.exec_properties
        IN /\ executions' = executions
           /\ events' = events
           /\ artifacts' = artifacts
           /\ contexts' = contexts
           /\ context_types' = context_types
           /\ \A t \in DOMAIN execution_types :
                t # type_name => execution_types'[t] = execution_types[t]
           /\ execution_types'[type_name] # execution_types[type_name]
                => /\ last'.outcome = "ok"
                   /\ execution_types'[type_name] = NewExecutionType(keys)
                   /\ execution_types[type_name] \subseteq execution_types'[type_name]]_vars

\* a lookup declaring lr has extended the type of a stored execution that
\* was registered without declared properties, and returned none
C29_Witness ==
  /\ last.op = "previous_execution"
  /\ last.outcome = "ok"
  /\ DOMAIN last.args.exec_properties = {"lr"}
  /\ Len(executions) = 1
  /\ published[1].call.exec_properties = NoProperties
  /\ "lr" \in execution_types[last.args.component_info.component_type]
  /\ contexts # <<>>
  /\ get_pipeline_context(contexts, last.args.pipeline_info) \in executions[1].contexts

====
